---- MODULE Spec2Model ----
(***************************************************************************)
(* Model of the syntax-diagrams layout engine: ridge lines                 *)
(* (_impl/ridge_line.py), element tree construction (_impl/tree/*.py,      *)
(* _impl/load.py), the sequence wrap loop (_impl/tree/sequence.py) and the *)
(* text renderer (_impl/render/text.py).                                   *)
(***************************************************************************)
EXTENDS Integers, Sequences, FiniteSets, TLC

VARIABLES
    \* ---- ridge lines ----
    lhs,        \* first ridge line operand
    rhs,        \* second ridge line operand
    pivot,      \* pivot of the last reverse_ridge_line call
    rop,        \* last ridge line operation applied
    rl_out,     \* ridge line returned by the last merge / reverse
    rl_dist,    \* integer returned by the last find_distance
    \* ---- loader ----
    stack,      \* elements loaded so far that wait for their parent's constructor
    descr,      \* depth and leaf count of the description each was loaded from
    last,       \* the last loader call: constructor, arguments, outcome
    \* ---- sequence layout ----
    self,           \* the Sequence under layout: _items, _linebreaks, _item_rows, ...
    frame,          \* locals of _calculate_content_layout / _calculate_layout_multi_line
    item_context,   \* .context of every item of self._items (argument of its last layout)
    constructed,    \* _items and _linebreaks as Sequence.__new__ left them
    measure,        \* text measure of the settings: text -> width
    trace,          \* locals of the last wrap loop iteration after each of its parts
    previous,       \* what the calculate_layout call before the last one left
    \* ---- rendering ----
    calls,          \* render_text / calculate_layout calls made so far, with outcomes
    text_render,    \* a TextRender: one row of its field, the line being drawn
    \* ---- element layout ----
    laid_out        \* the element laid out last: class, context, fields the layout set

ridge_vars == <<lhs, rhs, pivot, rop, rl_out, rl_dist>>

load_vars == <<stack, descr, last>>

layout_vars == <<self, frame, item_context, constructed, measure, trace, previous>>

render_vars == <<calls, text_render>>

vars == <<lhs, rhs, pivot, rop, rl_out, rl_dist, stack, descr, last,
         self, frame, item_context, constructed, measure, trace, previous,
         calls, text_render, laid_out>>

(***************************************************************************)
(* Bounds                                                                  *)
(***************************************************************************)
MaxX == 2
MaxY == 1
MaxLhsRidge == 2
MaxRhsRidge == 2
MaxPivot == 2
MaxStack == 3
MaxChildren == 3
MaxLeaves == 3
MaxDepth == 2
MaxLinebreaks == 2

(***************************************************************************)
(* Helpers                                                                 *)
(***************************************************************************)
Max2(a, b) == IF a >= b THEN a ELSE b
Min2(a, b) == IF a <= b THEN a ELSE b

SetMax(S) == CHOOSE m \in S : \A n \in S : n <= m

SeqsUpTo(S, n) == UNION {[1..k -> S] : k \in 0..n}

(***************************************************************************)
(* Vec and RidgeLine                                                       *)
(***************************************************************************)
Vec(x, y) == [x |-> x, y |-> y]

RidgeLine(before, ridge) == [before |-> before, ridge |-> ridge]

Xs == 0..MaxX
Ys == (0 - 1)..MaxY
Points == {Vec(x, y) : x \in Xs, y \in Ys}

\* Breakpoints are stored left to right (x never decreases).
Ordered(ridge) == \A i \in 1..(Len(ridge) - 1) : ridge[i].x <= ridge[i + 1].x

RidgeLines(n) ==
    {RidgeLine(b, r) : b \in Ys, r \in {s \in SeqsUpTo(Points, n) : Ordered(s)}}

cmp(kind, a, b) == IF kind = "max" THEN Max2(a, b) ELSE Min2(a, b)

\* Position of the merge cursor: the smallest pending x of the two lines.
NextX(l, r, i, j) ==
    IF i > Len(l) THEN r[j].x
    ELSE IF j > Len(r) THEN l[i].x
    ELSE Min2(l[i].x, r[j].x)

RECURSIVE merge_loop(_, _, _, _, _, _, _, _)
merge_loop(kind, l, r, i, j, current_l_height, current_r_height, result) ==
    IF i > Len(l) /\ j > Len(r) THEN result
    ELSE
        LET x == NextX(l, r, i, j)
            stepL == i <= Len(l) /\ l[i].x = x
            stepR == j <= Len(r) /\ r[j].x = x
            lh == IF stepL THEN l[i].y ELSE current_l_height
            rh == IF stepR THEN r[j].y ELSE current_r_height
            merged_height == cmp(kind, lh, rh)
            res == IF result = <<>> \/ result[Len(result)].y # merged_height
                   THEN Append(result, Vec(x, merged_height))
                   ELSE result
        IN merge_loop(kind, l, r,
                      IF stepL THEN i + 1 ELSE i,
                      IF stepR THEN j + 1 ELSE j,
                      lh, rh, res)

\* Mutant: `before` is taken from the left operand only.
merge_ridge_lines_lhs_before(a, b, kind) ==
    RidgeLine(a.before,
              merge_loop(kind, a.ridge, b.ridge, 1, 1, a.before, b.before, <<>>))

\* Mutant: the first breakpoint is dropped too when it repeats `before`.
merge_ridge_lines_dedup_before(a, b, kind) ==
    LET m == merge_loop(kind, a.ridge, b.ridge, 1, 1, a.before, b.before, <<>>)
    IN RidgeLine(cmp(kind, a.before, b.before),
                 IF m # <<>> /\ m[1].y = cmp(kind, a.before, b.before)
                 THEN Tail(m) ELSE m)

merge_ridge_lines(a, b, kind) ==
    RidgeLine(cmp(kind, a.before, b.before),
              merge_loop(kind, a.ridge, b.ridge, 1, 1, a.before, b.before, <<>>))

\* Mutant: heights are mirrored without the one-step shift.
reverse_ridge_line_no_shift(a, p) ==
    IF a.ridge = <<>> THEN a
    ELSE
        LET n == Len(a.ridge)
        IN RidgeLine(a.ridge[n].y,
                     [k \in 1..n |-> Vec(p - a.ridge[n + 1 - k].x,
                                         a.ridge[n + 1 - k].y)])

reverse_ridge_line(a, p) ==
    IF a.ridge = <<>> THEN a
    ELSE
        LET n == Len(a.ridge)
            mirrored == [i \in 1..n |->
                            Vec(p - a.ridge[i].x,
                                IF i = 1 THEN a.before ELSE a.ridge[i - 1].y)]
        IN RidgeLine(a.ridge[n].y, [k \in 1..n |-> mirrored[n + 1 - k]])

RECURSIVE distance_loop(_, _, _, _, _, _, _)
distance_loop(l, r, i, j, current_l_height, current_r_height, d) ==
    IF i > Len(l) /\ j > Len(r) THEN d
    ELSE
        LET x == NextX(l, r, i, j)
            stepL == i <= Len(l) /\ l[i].x = x
            stepR == j <= Len(r) /\ r[j].x = x
            lh == IF stepL THEN l[i].y ELSE current_l_height
            rh == IF stepR THEN r[j].y ELSE current_r_height
        IN distance_loop(l, r,
                         IF stepL THEN i + 1 ELSE i,
                         IF stepR THEN j + 1 ELSE j,
                         lh, rh, Max2(d, lh + rh))

\* Mutant: the running maximum starts at 0 instead of the `before` sum.
find_distance_from_zero(a, b) ==
    distance_loop(a.ridge, b.ridge, 1, 1, a.before, b.before, 0)

find_distance(a, b) ==
    distance_loop(a.ridge, b.ridge, 1, 1, a.before, b.before,
                  a.before + b.before)

(***************************************************************************)
(* Element tree: Skip, Node, Sequence, Choice                              *)
(***************************************************************************)
LineBreak == {"HARD", "SOFT", "DEFAULT", "NO_BREAK"}

Texts == {"A", "B"}

Element(kind, text, items, linebreaks, default, has_skip) ==
    [kind |-> kind, text |-> text, _items |-> items,
     _linebreaks |-> linebreaks, _default |-> default, _has_skip |-> has_skip]

Skip == Element("Skip", "", <<>>, <<>>, 0, FALSE)

Node(text) == Element("Node", text, <<>>, <<>>, 0, FALSE)

isinstance(item, kind) == item.kind = kind

\* Outcome of a constructor call: the element returned or the exception raised.
Returned(e) == [err |-> "none", value |-> e]
Raised(exc) == [err |-> exc, value |-> Skip]

\* The `linebreaks` argument: None, one LineBreak, or a list of LineBreaks.
NoLinebreaks == [tag |-> "None", kind |-> "DEFAULT", list |-> <<>>]
OneLinebreak(k) == [tag |-> "LineBreak", kind |-> k, list |-> <<>>]
ListLinebreaks(l) == [tag |-> "list", kind |-> "DEFAULT", list |-> l]

\* Body of the zip_longest loop of Sequence.__new__: position i of
\* (items, linebreaks), where the shorter list is padded with None.
RECURSIVE Sequence_new_loop(_, _, _, _, _)
Sequence_new_loop(items, linebreaks, i, new_items, new_linebreaks) ==
    IF i > Max2(Len(items), Len(linebreaks)) THEN
        Element("Sequence", "", new_items, new_linebreaks, 0, FALSE)
    ELSE IF isinstance(items[i], "Skip") THEN
        Sequence_new_loop(items, linebreaks, i + 1, new_items, new_linebreaks)
    ELSE
        LET its == IF isinstance(items[i], "Sequence")
                   THEN new_items \o items[i]._items
                   ELSE Append(new_items, items[i])
            lbs1 == IF isinstance(items[i], "Sequence")
                    THEN new_linebreaks \o items[i]._linebreaks
                    ELSE new_linebreaks
            lbs2 == IF i <= Len(linebreaks)
                    THEN Append(lbs1, linebreaks[i])
                    ELSE lbs1
        IN Sequence_new_loop(items, linebreaks, i + 1, its, lbs2)

Sequence_new(items, linebreaks) ==
    IF Len(items) = 1 THEN Returned(items[1])
    ELSE IF Len(items) = 0 \/ \A i \in 1..Len(items) : isinstance(items[i], "Skip")
    THEN Returned(Skip)
    ELSE
        LET lbs == IF linebreaks.tag = "LineBreak"
                   THEN [i \in 1..(Len(items) - 1) |-> linebreaks.kind]
                   ELSE IF linebreaks.tag = "None"
                   THEN [i \in 1..(Len(items) - 1) |-> "DEFAULT"]
                   ELSE linebreaks.list
        IN IF Len(items) # Len(lbs) + 1
           THEN Raised("ValueError")
           ELSE Returned(Sequence_new_loop(items, lbs, 1, <<>>, <<>>))

\* First loop of Choice.__new__: nested choices are merged into one list.
RECURSIVE Choice_merge(_, _, _, _, _)
Choice_merge(items, default, i, merged_default, merged_items) ==
    IF i > Len(items) THEN [default |-> merged_default, items |-> merged_items]
    ELSE IF isinstance(items[i], "Choice") THEN
        Choice_merge(items, default, i + 1,
                     IF i - 1 = default
                     THEN Len(merged_items) + items[i]._default
                     ELSE merged_default,
                     merged_items \o items[i]._items)
    ELSE
        Choice_merge(items, default, i + 1,
                     IF i - 1 = default THEN Len(merged_items) ELSE merged_default,
                     Append(merged_items, items[i]))

\* Second loop of Choice.__new__: every Skip after the first seen is dropped.
RECURSIVE Choice_filter(_, _, _, _, _, _)
Choice_filter(merged_items, merged_default, i, filtered_default, filtered_items, seen_skip) ==
    IF i > Len(merged_items) THEN
        [default |-> filtered_default, items |-> filtered_items,
         seen_skip |-> seen_skip]
    ELSE IF i - 1 = merged_default THEN
        Choice_filter(merged_items, merged_default, i + 1, Len(filtered_items),
                      Append(filtered_items, merged_items[i]), seen_skip)
    ELSE IF isinstance(merged_items[i], "Skip") THEN
        IF seen_skip
        THEN Choice_filter(merged_items, merged_default, i + 1,
                           filtered_default, filtered_items, seen_skip)
        ELSE Choice_filter(merged_items, merged_default, i + 1,
                           filtered_default,
                           Append(filtered_items, merged_items[i]), TRUE)
    ELSE
        Choice_filter(merged_items, merged_default, i + 1, filtered_default,
                      Append(filtered_items, merged_items[i]), seen_skip)

\* Mutant: Skip deduplication does not look at the default branch.
Choice_seen_skip_false(merged) == FALSE

\* Skip deduplication starts from whether the default branch is a Skip.
Choice_seen_skip(merged) == isinstance(merged.items[merged.default + 1], "Skip")

\* `default` is a 0-based index, as in the source.
Choice_new(items, default) ==
    IF Len(items) = 0 THEN Returned(Skip)
    ELSE IF Len(items) = 1 THEN Returned(items[1])
    ELSE IF ~(0 <= default /\ default < Len(items)) THEN Raised("AssertionError")
    ELSE
        LET merged == Choice_merge(items, default, 1, 0, <<>>)
            filtered == Choice_filter(merged.items, merged.default, 1, 0, <<>>,
                                      Choice_seen_skip(merged))
        IN IF Len(filtered.items) = 1
           THEN Returned(filtered.items[1])
           ELSE Returned(Element("Choice", "", filtered.items, <<>>,
                                 filtered.default, filtered.seen_skip))

(***************************************************************************)
(* Layout: contexts, settings, metrics of nodes and of sequences           *)
(***************************************************************************)
ConnectionType == {"NULL", "NORMAL", "SPLIT", "STACK", "STACK_BOUND"}

ConnectionDirection == {"STRAIGHT", "UP", "DOWN"}

\* Layout settings of the text backend.  arc_radius is 0.5; it is kept
\* doubled so that it stays an integer.
arc_radius_doubled == 1
arc_margin == 1
terminal_horizontal_padding == 2
horizontal_seq_separation == 2
terminal_vertical_padding == 0
vertical_seq_separation_outer == 1
vertical_seq_separation == 1
group_vertical_padding == 1
group_horizontal_padding == 2
group_thickness == 1

floor_arc_radius == arc_radius_doubled \div 2

ceil_arc_radius == (arc_radius_doubled + 1) \div 2

arc_size(connection) ==
    CASE connection \in {"NORMAL", "NULL"} -> 0
      [] connection \in {"STACK", "STACK_BOUND"} -> ceil_arc_radius + arc_margin
      [] connection = "SPLIT" -> arc_radius_doubled + arc_margin

\* LayoutContext(width=..., is_outer=...) with the dataclass defaults.
LayoutContext(width, is_outer) ==
    [width |-> width, is_outer |-> is_outer,
     start_connection |-> "NORMAL", start_top_is_clear |-> FALSE,
     start_bottom_is_clear |-> FALSE, start_direction |-> "STRAIGHT",
     end_connection |-> "NORMAL", end_top_is_clear |-> FALSE,
     end_bottom_is_clear |-> FALSE, end_direction |-> "STRAIGHT",
     allow_shrinking_stacks |-> FALSE,
     opt_enter_top |-> FALSE, opt_enter_bottom |-> FALSE,
     opt_exit_top |-> FALSE, opt_exit_bottom |-> FALSE]

\* Horizontal metrics of an element after calculate_layout.
Metrics(display_width, content_width, start_padding, end_padding, start_margin, end_margin) ==
    [display_width |-> display_width, content_width |-> content_width,
     start_padding |-> start_padding, end_padding |-> end_padding,
     start_margin |-> start_margin, end_margin |-> end_margin]

\* Element.width
Element_width(m) == m.start_padding + m.content_width + m.end_padding

\* Element._isolate: the context handed to the element's content.
_isolate(context, start, end) ==
    [context EXCEPT
        !.width = Max2(0, context.width
                          - (IF start THEN arc_size(context.start_connection) ELSE 0)
                          - (IF end THEN arc_size(context.end_connection) ELSE 0)),
        !.start_connection =
            IF start
            THEN (IF context.start_connection # "NULL" THEN "NORMAL" ELSE "NULL")
            ELSE context.start_connection,
        !.start_top_is_clear = IF start THEN TRUE ELSE context.start_top_is_clear,
        !.start_bottom_is_clear = IF start THEN TRUE ELSE context.start_bottom_is_clear,
        !.start_direction = IF start THEN "STRAIGHT" ELSE context.start_direction,
        !.end_connection =
            IF end
            THEN (IF context.end_connection # "NULL" THEN "NORMAL" ELSE "NULL")
            ELSE context.end_connection,
        !.end_top_is_clear = IF end THEN TRUE ELSE context.end_top_is_clear,
        !.end_bottom_is_clear = IF end THEN TRUE ELSE context.end_bottom_is_clear,
        !.end_direction = IF end THEN "STRAIGHT" ELSE context.end_direction]

\* Mutant: the arcs are added to the paddings only.
calculate_layout_adjust_paddings_only(m, context, isolated_start, isolated_end) ==
    LET sa == arc_size(context.start_connection)
        ea == arc_size(context.end_connection)
    IN [m EXCEPT !.start_padding = IF isolated_start THEN @ + sa ELSE @,
                 !.end_padding = IF isolated_end THEN @ + ea ELSE @]

\* Element.calculate_layout after _calculate_content_layout returned m:
\* the isolated sides grow by the arc of their connection.
calculate_layout_adjust(m, context, isolated_start, isolated_end) ==
    LET sa == arc_size(context.start_connection)
        ea == arc_size(context.end_connection)
        sp == IF isolated_start THEN m.start_padding + sa ELSE m.start_padding
        ep == IF isolated_end THEN m.end_padding + ea ELSE m.end_padding
    IN Metrics(
        m.display_width + (IF isolated_start THEN sa ELSE 0)
                        + (IF isolated_end THEN ea ELSE 0),
        m.content_width,
        sp,
        ep,
        IF isolated_start /\ context.start_connection \in {"STACK", "SPLIT"}
        THEN Max2(sp + arc_margin, m.start_margin) ELSE m.start_margin,
        IF isolated_end /\ context.end_connection \in {"STACK", "SPLIT"}
        THEN Max2(ep + arc_margin, m.end_margin) ELSE m.end_margin)

\* Node._calculate_content_layout, with both sides isolated.
Node_calculate_layout(text_width, context) ==
    calculate_layout_adjust(
        Metrics(text_width + 2 * terminal_horizontal_padding,
                text_width + 2 * terminal_horizontal_padding,
                0, 0, horizontal_seq_separation, horizontal_seq_separation),
        context, TRUE, TRUE)

\* Mutant: only the margin of the element on the left is respected.
_calculate_gap_prev_only(prev, next) ==
    SetMax({0, prev.end_margin - prev.end_padding - next.start_padding, arc_margin})

_calculate_gap(prev, next) ==
    SetMax({0,
            prev.end_margin - prev.end_padding - next.start_padding,
            next.start_margin - next.start_padding - prev.end_padding,
            arc_margin})

\* The context _calculate_layout_single_line gives to item i of n (i from 0).
single_line_item_context(context, i, n, max_width) ==
    LET base == [LayoutContext(max_width, context.is_outer) EXCEPT
                    !.start_top_is_clear = TRUE, !.start_bottom_is_clear = TRUE,
                    !.end_top_is_clear = TRUE, !.end_bottom_is_clear = TRUE]
        first == IF i = 0
                 THEN [base EXCEPT
                        !.opt_enter_top = context.opt_enter_top,
                        !.opt_enter_bottom = context.opt_enter_bottom,
                        !.start_connection = context.start_connection,
                        !.start_top_is_clear = context.start_top_is_clear,
                        !.start_bottom_is_clear = context.start_bottom_is_clear]
                 ELSE base
    IN IF i = n - 1
       THEN [first EXCEPT
                !.opt_exit_top = context.opt_exit_top,
                !.opt_exit_bottom = context.opt_exit_bottom,
                !.end_connection = context.end_connection,
                !.end_top_is_clear = context.end_top_is_clear,
                !.end_bottom_is_clear = context.end_bottom_is_clear,
                !.allow_shrinking_stacks = context.allow_shrinking_stacks]
       ELSE first

SetMin(S) == CHOOSE x \in S : \A y \in S : x <= y

\* Width of one row: the shift of a continuation row, the items' widths and
\* the gaps between neighbours.
RECURSIVE row_width(_, _, _)
row_width(row, line_shift, j) ==
    IF j = 0 THEN line_shift
    ELSE row_width(row, line_shift, j - 1) + Element_width(row[j])
         + (IF j > 1 THEN _calculate_gap(row[j - 1], row[j]) ELSE 0)

\* Sequence._calculate_layout_metrics, horizontal part.  rows holds the
\* metrics of the items of every row; every row is non-empty.
_calculate_layout_metrics(rows, shift_first_line, context) ==
    LET R == 1..Len(rows)
        shift(r) == IF r > 1 /\ shift_first_line THEN floor_arc_radius ELSE 0
        rw(r) == row_width(rows[r], shift(r), Len(rows[r]))
        head(r) == rows[r][1]
        tail(r) == rows[r][Len(rows[r])]
        longest == SetMax({0} \cup {rw(r) : r \in R})
        display_width == SetMax({0} \cup
            {rw(r) - Element_width(tail(r)) + tail(r).display_width : r \in R})
        start_padding == SetMin({head(r).start_padding + shift(r) : r \in R})
        start_margin_offset ==
            SetMin({shift(r) - head(r).start_margin + head(r).start_padding : r \in R})
        end_padding_offset == SetMax({rw(r) - tail(r).end_padding : r \in R})
        last_elem == tail(Len(rows))
        w == IF context.allow_shrinking_stacks THEN rw(Len(rows)) ELSE longest
        end_padding == IF context.allow_shrinking_stacks
                       THEN last_elem.end_padding
                       ELSE Max2(0, w - end_padding_offset)
        end_margin_offset ==
            IF context.allow_shrinking_stacks
            THEN w - last_elem.end_padding + last_elem.end_margin
            ELSE SetMax({rw(r) + tail(r).end_margin - tail(r).end_padding : r \in R})
    IN Metrics(display_width,
               Max2(0, w - start_padding - end_padding),
               start_padding,
               end_padding,
               Max2(0, (0 - start_margin_offset) + start_padding),
               Max2(0, (end_margin_offset - w) + end_padding))

\* calculate_layout of an item of a sequence: a Node, or a Sequence of Nodes
\* joined by NO_BREAK, which is always laid out as a single row and never
\* isolates.
calculate_layout(item, context, text_measure) ==
    IF isinstance(item, "Node")
    THEN Node_calculate_layout(text_measure[item.text][1], context)
    ELSE LET n == Len(item._items)
             row == [j \in 1..n |->
                        Node_calculate_layout(
                            text_measure[item._items[j].text][1],
                            single_line_item_context(context, j - 1, n, context.width))]
         IN _calculate_layout_metrics(<<row>>, FALSE, context)

\* Vertical metrics of an element after calculate_layout.
VerticalMetrics(up, height, down) == [up |-> up, height |-> height, down |-> down]

\* Node._calculate_content_layout: height, up and down.
Node_calculate_layout_vertical(text_height) ==
    VerticalMetrics((text_height + 1) \div 2 + terminal_vertical_padding,
                    0,
                    (text_height + 1) \div 2 + terminal_vertical_padding)

\* One row of Sequence._calculate_layout_metrics: the items of a row stand
\* one after the other, each lower than the one before by its height.
RECURSIVE row_pos(_, _)
row_pos(row, j) == IF j = 0 THEN 0 ELSE row_pos(row, j - 1) + row[j].height

\* Mutant: no item of the row rises above the line.
row_up_zero(row) == 0

row_up(row) ==
    SetMax({0} \cup {row[j].up - row_pos(row, j - 1) : j \in 1..Len(row)})

row_down_offset(row) ==
    SetMax({0} \cup {row_pos(row, j) + row[j].down : j \in 1..Len(row)})

\* Sequence._calculate_layout_metrics, vertical part: pos after the rows
\* before row r were placed, when r is not the first row this is the y of
\* the line that leads to row r (row_upper_line).
RECURSIVE row_upper_line(_, _, _)
row_upper_line(rows, separation, r) ==
    IF r = 1 THEN 0
    ELSE row_upper_line(rows, separation, r - 1)
         + (IF r > 2 THEN separation + row_up(rows[r - 1]) ELSE 0)
         + row_down_offset(rows[r - 1]) + separation

\* Mutant: the rows are one separation apart, whatever their extent.
row_y_packed(rows, separation, r) == (r - 1) * separation

\* The y of row r (the second entry of _item_rows_layout[r]).
row_y(rows, separation, r) ==
    IF r = 1 THEN 0
    ELSE row_upper_line(rows, separation, r) + separation + row_up(rows[r])

\* Sequence._calculate_layout_metrics: up, height and down.  rows holds the
\* vertical metrics of the items of every row.
_calculate_layout_metrics_vertical(rows, is_outer) ==
    LET separation == IF is_outer THEN vertical_seq_separation_outer
                      ELSE vertical_seq_separation
        n == Len(rows)
        final == rows[n]
    IN VerticalMetrics(
        row_up(rows[1]),
        row_y(rows, separation, n) + row_pos(final, Len(final)),
        Max2(0, row_down_offset(final) - row_pos(final, Len(final))))

\* Vertical metrics of an item of a sequence: a Node, or a Sequence of Nodes
\* in a single row.
calculate_layout_vertical(item, text_measure) ==
    IF isinstance(item, "Node")
    THEN Node_calculate_layout_vertical(text_measure[item.text][2])
    ELSE _calculate_layout_metrics_vertical(
            <<[j \in 1..Len(item._items) |->
                Node_calculate_layout_vertical(text_measure[item._items[j].text][2])]>>,
            TRUE)

\* RidgeLine.__add__
RidgeLine_add(a, v) ==
    RidgeLine(a.before + v.y,
              [i \in 1..Len(a.ridge) |-> Vec(a.ridge[i].x + v.x, a.ridge[i].y + v.y)])

\* Element.top_ridge_line of a Node: Element._calculate_top_ridge_line with
\* the paddings the Node had before it was isolated, moved right by the arc
\* of the start connection.
Node_top_ridge_line(text_size, context) ==
    LET v == Node_calculate_layout_vertical(text_size[2])
        content_width == text_size[1] + 2 * terminal_horizontal_padding
    IN RidgeLine_add(
        RidgeLine(0, <<Vec(0, v.up), Vec(content_width, 0 - v.height)>>),
        Vec(arc_size(context.start_connection), 0))

\* Element.bottom_ridge_line of a Node.
Node_bottom_ridge_line(text_size, context) ==
    LET v == Node_calculate_layout_vertical(text_size[2])
        content_width == text_size[1] + 2 * terminal_horizontal_padding
    IN RidgeLine_add(
        RidgeLine(0 - v.height, <<Vec(0, v.down), Vec(content_width, 0)>>),
        Vec(arc_size(context.start_connection), 0))

\* The place of item j of a row whose first item stands at x = shift: the
\* items' widths and the gaps between them, and the heights of the items
\* before it.
RECURSIVE item_pos(_, _, _, _)
item_pos(metrics, vertical, shift, j) ==
    IF j = 1 THEN Vec(shift, 0)
    ELSE LET before == item_pos(metrics, vertical, shift, j - 1)
         IN Vec(before.x + Element_width(metrics[j - 1])
                    + _calculate_gap(metrics[j - 1], metrics[j]),
                before.y + vertical[j - 1].height)

\* The inner loop of Sequence._calculate_top_ridge_line: the top ridge lines
\* of the items of one row, each at its place, merged.
RECURSIVE row_top_ridge(_, _, _, _, _, _)
row_top_ridge(ridges, metrics, vertical, shift, floor, j) ==
    IF j = 0 THEN RidgeLine(floor, <<>>)
    ELSE LET pos == item_pos(metrics, vertical, shift, j)
         IN merge_ridge_lines(
                row_top_ridge(ridges, metrics, vertical, shift, floor, j - 1),
                RidgeLine_add(ridges[j], Vec(pos.x, 0 - pos.y)),
                "max")

\* The loop of Sequence._calculate_bottom_ridge_line over the items of a row.
RECURSIVE row_bottom_ridge(_, _, _, _, _, _)
row_bottom_ridge(ridges, metrics, vertical, shift, before, j) ==
    IF j = 0 THEN RidgeLine(before, <<>>)
    ELSE LET pos == item_pos(metrics, vertical, shift, j)
             item_ridge == RidgeLine_add(ridges[j],
                                Vec(pos.x, before + pos.y + vertical[j].height))
         IN merge_ridge_lines(
                row_bottom_ridge(ridges, metrics, vertical, shift, before, j - 1),
                [item_ridge EXCEPT !.before = before],
                "max")

\* Sequence._calculate_top_ridge_line of a Sequence laid out in one row.
Sequence_top_ridge_line(ridges, metrics, vertical) ==
    LET own == _calculate_layout_metrics_vertical(<<vertical>>, TRUE)
        n == Len(metrics)
        row_display_width ==
            row_width(metrics, 0, n) - Element_width(metrics[n])
                + metrics[n].display_width
        row_ridge == merge_ridge_lines(
            row_top_ridge(ridges, metrics, vertical, 0, 0 - own.height, n),
            RidgeLine(own.up, <<Vec(row_display_width, 0 - own.height)>>),
            "min")
    IN merge_ridge_lines(RidgeLine(0 - own.height, <<>>), row_ridge, "max")

\* Sequence._calculate_bottom_ridge_line of a Sequence laid out in one row.
Sequence_bottom_ridge_line(ridges, metrics, vertical) ==
    LET own == _calculate_layout_metrics_vertical(<<vertical>>, TRUE)
        n == Len(metrics)
        display_width ==
            row_width(metrics, 0, n) - Element_width(metrics[n])
                + metrics[n].display_width
    IN merge_ridge_lines(
        row_bottom_ridge(ridges, metrics, vertical, 0, 0 - own.height, n),
        RidgeLine(0 - own.height, <<Vec(0, own.down), Vec(display_width, 0)>>),
        "min")

\* The contexts and metrics of the Nodes of a Sequence that is an item of a
\* row (see calculate_layout).
InnerContexts(item, context) ==
    [j \in 1..Len(item._items) |->
        single_line_item_context(context, j - 1, Len(item._items), context.width)]

InnerMetrics(item, context, text_measure) ==
    [j \in 1..Len(item._items) |->
        Node_calculate_layout(text_measure[item._items[j].text][1],
                              InnerContexts(item, context)[j])]

InnerVertical(item, text_measure) ==
    [j \in 1..Len(item._items) |->
        Node_calculate_layout_vertical(text_measure[item._items[j].text][2])]

\* Element.top_ridge_line of an item of a row.
top_ridge_line(item, context, text_measure) ==
    IF isinstance(item, "Node")
    THEN Node_top_ridge_line(text_measure[item.text], context)
    ELSE Sequence_top_ridge_line(
            [j \in 1..Len(item._items) |->
                Node_top_ridge_line(text_measure[item._items[j].text],
                                    InnerContexts(item, context)[j])],
            InnerMetrics(item, context, text_measure),
            InnerVertical(item, text_measure))

\* Element.bottom_ridge_line of an item of a row.
bottom_ridge_line(item, context, text_measure) ==
    IF isinstance(item, "Node")
    THEN Node_bottom_ridge_line(text_measure[item.text], context)
    ELSE Sequence_bottom_ridge_line(
            [j \in 1..Len(item._items) |->
                Node_bottom_ridge_line(text_measure[item._items[j].text],
                                       InnerContexts(item, context)[j])],
            InnerMetrics(item, context, text_measure),
            InnerVertical(item, text_measure))

\* The loop of Sequence._join_no_breaks.  The last item pairs with None when
\* the lists have the usual lengths.
RECURSIVE _join_no_breaks_loop(_, _, _, _, _, _)
_join_no_breaks_loop(items, linebreaks, i, new_items, new_linebreaks, current_seq) ==
    IF i > Len(items) THEN [_items |-> new_items, _linebreaks |-> new_linebreaks]
    ELSE
        LET linebreak == IF i <= Len(linebreaks) THEN linebreaks[i] ELSE "None"
            seq == Append(current_seq, items[i])
        IN IF linebreak # "NO_BREAK"
           THEN _join_no_breaks_loop(items, linebreaks, i + 1,
                    Append(new_items, Sequence_new(seq, OneLinebreak("NO_BREAK")).value),
                    Append(new_linebreaks, linebreak), <<>>)
           ELSE _join_no_breaks_loop(items, linebreaks, i + 1,
                    new_items, new_linebreaks, seq)

\* Mutant: the items are left as they are.
_join_no_breaks_skipped(items, linebreaks) ==
    [_items |-> items, _linebreaks |-> linebreaks]

\* Sequence._join_no_breaks: items joined by NO_BREAK become one Sequence.
_join_no_breaks(items, linebreaks) ==
    _join_no_breaks_loop(items, linebreaks, 1, <<>>, <<>>, <<>>)

\* The layout variables while no sequence is under layout.
NoFrame == [pc |-> "idle"]

\* No wrap loop iteration was observed.
NoTrace == [part |-> "none"]

\* No calculate_layout call came before the last one.
NoPrevious == [calls |-> 0]

NoLine == [x |-> 0 - 1, reverse |-> FALSE]

NoSegment == [from |-> 0 - 1, to |-> 0 - 1, before |-> <<>>,
              arrow_begin |-> FALSE, arrow_end |-> FALSE]

\* No element was laid out on its own.
NoElement == [class |-> "none"]

\* Nothing is rendered.
RenderIdle ==
    /\ laid_out = NoElement
    /\ calls = <<>>
    /\ text_render = [_field |-> <<>>, line |-> NoLine, segment |-> NoSegment, drawn |-> 0]

LayoutIdle ==
    /\ RenderIdle
    /\ self = Skip
    /\ frame = NoFrame
    /\ item_context = <<>>
    /\ constructed = Skip
    /\ measure = <<>>
    /\ trace = NoTrace
    /\ previous = NoPrevious

(***************************************************************************)
(* Ridge line operations as a state machine                                *)
(***************************************************************************)
EmptyLine == RidgeLine(0, <<>>)

RidgeInit ==
    /\ lhs \in RidgeLines(MaxLhsRidge)
    /\ rhs \in RidgeLines(MaxRhsRidge)
    /\ pivot = 0
    /\ rop = "init"
    /\ rl_out = EmptyLine
    /\ rl_dist = 0
    /\ stack = <<>>
    /\ descr = <<>>
    /\ last = [ctor |-> "none"]
    /\ LayoutIdle

Merge(kind) ==
    /\ rop = "init"
    /\ rl_out' = merge_ridge_lines(lhs, rhs, kind)
    /\ rop' = IF kind = "max" THEN "merge_max" ELSE "merge_min"
    /\ UNCHANGED <<lhs, rhs, pivot, rl_dist, stack, descr, last, layout_vars, render_vars, laid_out>>

MergeMax == Merge("max")

MergeMin == Merge("min")

Reverse ==
    /\ rop = "init"
    /\ \E p \in 0..MaxPivot :
        /\ pivot' = p
        /\ rl_out' = reverse_ridge_line(lhs, p)
    /\ rop' = "reverse"
    /\ UNCHANGED <<lhs, rhs, rl_dist, stack, descr, last, layout_vars, render_vars, laid_out>>

ReverseBack ==
    /\ rop = "reverse"
    /\ rl_out' = reverse_ridge_line(rl_out, pivot)
    /\ rop' = "reverse_back"
    /\ UNCHANGED <<lhs, rhs, pivot, rl_dist, stack, descr, last, layout_vars, render_vars, laid_out>>

FindDistance ==
    /\ rop = "init"
    /\ rl_dist' = find_distance(lhs, rhs)
    /\ rop' = "distance"
    /\ UNCHANGED <<lhs, rhs, pivot, rl_out, stack, descr, last, layout_vars, render_vars, laid_out>>

RidgeNext == MergeMax \/ MergeMin \/ Reverse \/ ReverseBack \/ FindDistance

SpecRidge == RidgeInit /\ [][RidgeNext]_vars

(***************************************************************************)
(* Loader (_impl/load.py) as a state machine.  load() is recursive: the    *)
(* children of a description are loaded first, then the constructor of the *)
(* description is applied to them.  `stack` holds the loaded elements that *)
(* still wait for their parent.                                            *)
(***************************************************************************)
\* kw.pop("default", None): absent, or an integer.
NoDefault == [given |-> FALSE, value |-> 0]
DefaultArg(d) == [given |-> TRUE, value |-> d]

Call(ctor, items, linebreaks, default, outcome) ==
    [ctor |-> ctor, items |-> items, linebreaks |-> linebreaks,
     default |-> default, err |-> outcome.err, out |-> outcome.value]

NoCall == Call("none", <<>>, NoLinebreaks, NoDefault, Returned(Skip))

\* The last k loaded elements, in order, and what is below them.
TopOf(k) == SubSeq(stack, Len(stack) - k + 1, Len(stack))
BelowTop(k) == SubSeq(stack, 1, Len(stack) - k)

\* Depth of a description whose children are the last k loaded elements.
DepthOver(k) ==
    1 + SetMax({0} \cup {descr[i].depth : i \in (Len(descr) - k + 1)..Len(descr)})

RECURSIVE LeavesOf(_)
LeavesOf(ds) == IF ds = <<>> THEN 0 ELSE Head(ds).leaves + LeavesOf(Tail(ds))

\* Leaves of a description whose children are the last k loaded elements;
\* a description without children is a leaf itself.
LeavesOver(k) ==
    IF k = 0 THEN 1 ELSE LeavesOf(SubSeq(descr, Len(descr) - k + 1, Len(descr)))

ChildCounts ==
    {k \in 1..MaxChildren : k <= Len(stack) /\ DepthOver(k) <= MaxDepth}

\* The description being loaded has a bounded number of leaves.
RoomForLeaf == Len(stack) < MaxStack /\ LeavesOf(descr) < MaxLeaves

\* Kinds used in explicit `linebreaks` lists; the other kinds are reached
\* through a single LineBreak, None, stack and no_break.
ListedLineBreaks == {"SOFT", "NO_BREAK"}

LinebreakArgs ==
    {NoLinebreaks}
        \cup {OneLinebreak(k) : k \in LineBreak}
        \cup {ListLinebreaks(l) : l \in SeqsUpTo(ListedLineBreaks, MaxLinebreaks)}

DefaultArgs == {NoDefault} \cup {DefaultArg(d) : d \in (0 - 1)..(MaxChildren + 1)}

\* _load_linebreaks: a list of LineBreak members is passed through.
_load_linebreaks(linebreak) == linebreak

\* A constructor call that consumes the last k loaded elements.  An
\* exception ends the whole load() call.
Finish(k, call) ==
    /\ last' = call
    /\ stack' = IF call.err = "none" THEN Append(BelowTop(k), call.out) ELSE stack
    /\ descr' = IF call.err = "none"
                 THEN Append(SubSeq(descr, 1, Len(descr) - k),
                             [depth |-> DepthOver(k), leaves |-> LeavesOver(k)])
                 ELSE descr
    /\ UNCHANGED <<ridge_vars, layout_vars, render_vars, laid_out>>

\* A description without children (sequence([]), choice([]), ...) counts as
\* a leaf of the description.
EmptyCount == IF RoomForLeaf THEN {0} ELSE {}

LoadInit ==
    /\ stack = <<>>
    /\ descr = <<>>
    /\ last = NoCall

RidgeIdle ==
    /\ lhs = EmptyLine
    /\ rhs = EmptyLine
    /\ pivot = 0
    /\ rop = "idle"
    /\ rl_out = EmptyLine
    /\ rl_dist = 0

Init == RidgeIdle /\ LoadInit /\ LayoutIdle

Loading == last.err = "none"

_load_terminal ==
    /\ Loading
    /\ RoomForLeaf
    /\ \E t \in Texts :
        Finish(0, Call("terminal", <<>>, NoLinebreaks, NoDefault,
                       Returned(Node(t))))

\* load(None)
_load_skip ==
    /\ Loading
    /\ RoomForLeaf
    /\ Finish(0, Call("skip", <<>>, NoLinebreaks, NoDefault, Returned(Skip)))

_load_sequence ==
    /\ Loading
    /\ \E k \in ChildCounts \cup EmptyCount, lb \in LinebreakArgs :
        Finish(k, Call("sequence", TopOf(k), lb, NoDefault,
                       Sequence_new(TopOf(k), _load_linebreaks(lb))))

_load_stack ==
    /\ Loading
    /\ \E k \in ChildCounts \cup EmptyCount :
        Finish(k, Call("stack", TopOf(k), OneLinebreak("HARD"), NoDefault,
                       Sequence_new(TopOf(k), OneLinebreak("HARD"))))

_load_no_break ==
    /\ Loading
    /\ \E k \in ChildCounts \cup EmptyCount :
        Finish(k, Call("no_break", TopOf(k), OneLinebreak("NO_BREAK"), NoDefault,
                       Sequence_new(TopOf(k), OneLinebreak("NO_BREAK"))))

\* `_ensure_type("default", ..., int, NoneType) or 0`
DefaultOrZero(d) == IF d.given THEN d.value ELSE 0

_load_choice ==
    /\ Loading
    /\ \E k \in ChildCounts \cup EmptyCount, d \in DefaultArgs :
        Finish(k, Call("choice", TopOf(k), NoLinebreaks, d,
                       Choice_new(TopOf(k), DefaultOrZero(d))))

_load_optional ==
    /\ Loading
    /\ Len(stack) >= 1
    /\ DepthOver(1) <= MaxDepth
    /\ \E skip \in BOOLEAN, skip_bottom \in BOOLEAN :
        LET element == stack[Len(stack)]
            items == IF skip_bottom THEN <<element, Skip>> ELSE <<Skip, element>>
            default == IF skip_bottom
                       THEN (IF skip THEN 1 ELSE 0)
                       ELSE (IF skip THEN 0 ELSE 1)
        IN Finish(1, Call("optional", items, NoLinebreaks, DefaultArg(default),
                          Choice_new(items, default)))

Next ==
    \/ _load_terminal
    \/ _load_skip
    \/ _load_sequence
    \/ _load_stack
    \/ _load_no_break
    \/ _load_choice
    \/ _load_optional

Spec == Init /\ [][Next]_vars

(***************************************************************************)
(* Sequence layout (_impl/tree/sequence.py) as a state machine.  A         *)
(* Sequence of Nodes is constructed, then calculate_layout runs on it: the *)
(* entry up to the wrap loop is one step, every iteration of the wrap loop *)
(* is one step, and the code after the loop is one step.                   *)
(***************************************************************************)
MaxItems == 4
MaxWidthSteps == 4

LayoutNames == <<"A", "B", "C", "D", "E">>

\* What the text measure returns for a text: <<width, height>>.
TextSizes == {<<1, 1>>, <<5, 1>>}

LayoutWidths == {0} \cup {6 * w : w \in 2..MaxWidthSteps}

\* The children handed to Sequence.__new__: two or more Nodes, or two Nodes
\* and a Skip.
ChildLists ==
    LET nodes(k) == [j \in 1..k |-> Node(LayoutNames[j])]
    IN {nodes(k) : k \in 2..MaxItems} \cup {Append(nodes(2), Skip)}

\* The contexts a parent hands to a Sequence: the line enters straight, or
\* from a split whose lower side is clear or not; it leaves straight or into
\* a stack.
LayoutContexts ==
    {[LayoutContext(w, TRUE) EXCEPT
        !.start_connection = s[1], !.end_connection = ec,
        !.start_top_is_clear = TRUE, !.start_bottom_is_clear = s[2],
        !.end_top_is_clear = TRUE, !.end_bottom_is_clear = TRUE] :
     w \in LayoutWidths,
     s \in {<<"NORMAL", TRUE>>, <<"SPLIT", TRUE>>, <<"SPLIT", FALSE>>},
     ec \in {"NORMAL", "STACK"}}

NoContext == [LayoutContext(0, FALSE) EXCEPT !.width = 0 - 1]

Frame(pc, context, i, current_row, current_width, last_soft_break_idx, width_at_last_soft_break, margin_after_last_soft_break, max_width, max_line_width) ==
    [pc |-> pc, context |-> context, i |-> i, current_row |-> current_row,
     current_width |-> current_width,
     last_soft_break_idx |-> last_soft_break_idx,
     width_at_last_soft_break |-> width_at_last_soft_break,
     margin_after_last_soft_break |-> margin_after_last_soft_break,
     max_width |-> max_width, max_line_width |-> max_line_width]

FrameAt(pc, context) == Frame(pc, context, 0, <<>>, 0, 0, 0, 0, 0, 0)

SequenceObject(items, linebreaks) ==
    [_items |-> items, _linebreaks |-> linebreaks, _item_rows |-> <<>>,
     _start_connection |-> "NORMAL", _end_connection |-> "NORMAL",
     _shift_first_line |-> FALSE, context |-> NoContext]

LayoutInit ==
    /\ \E children \in ChildLists :
       \E linebreaks \in [1..(Len(children) - 1) -> LineBreak] :
          LET made == Sequence_new(children, ListLinebreaks(linebreaks))
          IN /\ made.err = "none"
             /\ isinstance(made.value, "Sequence")
             /\ constructed = made.value
             /\ self = SequenceObject(made.value._items, made.value._linebreaks)
             /\ measure \in [{made.value._items[j].text :
                                j \in 1..Len(made.value._items)} -> TextSizes]
    /\ frame = FrameAt("start", NoContext)
    /\ item_context = <<>>
    /\ trace = NoTrace
    /\ previous = NoPrevious
    /\ RenderIdle

InitLayout == RidgeIdle /\ LoadInit /\ LayoutInit

Range(s) == {s[j] : j \in 1..Len(s)}

RECURSIVE SumSeq(_)
SumSeq(s) == IF s = <<>> THEN 0 ELSE s[1] + SumSeq(Tail(s))

\* Metrics of item j of items when its context is contexts[j].
ItemMetrics(items, contexts, j) == calculate_layout(items[j], contexts[j], measure)

all_no_break(linebreaks) == \A j \in 1..Len(linebreaks) : linebreaks[j] = "NO_BREAK"

\* _calculate_layout_single_line: the items' contexts and the two widths.
\* With a scale, every item is given the floor of its scaled display width.
_calculate_layout_single_line(items, context, scaled, numerator, denominator) ==
    LET n == Len(items)
        plain == [j \in 1..n |->
                    single_line_item_context(context, j - 1, n, context.width)]
        contexts == [j \in 1..n |->
            IF scaled
            THEN single_line_item_context(context, j - 1, n,
                    (ItemMetrics(items, plain, j).display_width * numerator)
                        \div denominator)
            ELSE plain[j]]
        gaps == [j \in 1..(n - 1) |->
                    _calculate_gap(ItemMetrics(items, contexts, j),
                                   ItemMetrics(items, contexts, j + 1))]
        widths == [j \in 1..n |-> ItemMetrics(items, contexts, j).display_width]
    IN [contexts |-> contexts,
        width |-> SumSeq(widths) + SumSeq(gaps),
        gaps_width |-> SumSeq(gaps)]

\* One row holding every item, as positions in self._items.
OneRow(items) == <<[j \in 1..Len(items) |-> j]>>

\* Sequence._calculate_content_layout up to the wrap loop:
\* _join_no_breaks, the single line attempt, and either the single row
\* result or the isolation and the initial locals of the wrap loop.
Sequence_calculate_content_layout(context) ==
    /\  LET joined == IF "NO_BREAK" \in Range(self._linebreaks)
                         /\ ~all_no_break(self._linebreaks)
                      THEN _join_no_breaks(self._items, self._linebreaks)
                      ELSE [_items |-> self._items,
                            _linebreaks |-> self._linebreaks]
            items == joined._items
            linebreaks == joined._linebreaks
            try_single == "HARD" \notin Range(linebreaks)
            single == _calculate_layout_single_line(items, context, FALSE, 1, 1)
            rescale == single.gaps_width < context.width /\ context.width > 0
            scaled == _calculate_layout_single_line(items, context, TRUE,
                        context.width - single.gaps_width,
                        single.width - single.gaps_width)
            isolated == _isolate(context,
                            context.start_direction = "DOWN"
                                \/ ~context.start_bottom_is_clear,
                            context.end_direction = "UP"
                                \/ ~context.end_top_is_clear)
            start_connection == IF isolated.start_connection = "NORMAL"
                                THEN "STACK_BOUND"
                                ELSE isolated.start_connection
            shift_first_line == isinstance(items[1], "Choice")
                                \/ start_connection = "SPLIT"
            joined_self == [self EXCEPT !._items = items,
                                        !._linebreaks = linebreaks,
                                        !.context = context]
        IN IF try_single /\ single.width <= context.width
           THEN /\ self' = [joined_self EXCEPT
                                !._start_connection = context.start_connection,
                                !._end_connection = context.end_connection,
                                !._shift_first_line = FALSE,
                                !._item_rows = OneRow(items)]
                /\ item_context' = single.contexts
                /\ frame' = FrameAt("done", context)
           ELSE IF try_single /\ all_no_break(linebreaks)
           THEN /\ self' = [joined_self EXCEPT
                                !._start_connection = context.start_connection,
                                !._end_connection = context.end_connection,
                                !._shift_first_line = FALSE,
                                !._item_rows = OneRow(items)]
                /\ item_context' = IF rescale THEN scaled.contexts
                                   ELSE single.contexts
                /\ frame' = FrameAt("done", context)
           ELSE /\ self' = [joined_self EXCEPT
                                !._start_connection = start_connection,
                                !._end_connection = isolated.end_connection,
                                !._shift_first_line = shift_first_line,
                                !._item_rows = <<>>]
                /\ item_context' = IF try_single THEN single.contexts
                                   ELSE IF item_context = <<>>
                                   THEN [j \in 1..Len(items) |-> NoContext]
                                   ELSE item_context
                /\ frame' = Frame("wrap", isolated, 0, <<>>, 0, 0, 0, 0,
                                  IF shift_first_line
                                  THEN isolated.width - floor_arc_radius
                                  ELSE isolated.width,
                                  isolated.width)
    /\ trace' = NoTrace
    /\ UNCHANGED <<ridge_vars, load_vars, constructed, measure, render_vars, laid_out>>

\* Mutant: the cache is never hit.
cache_hit_never(context) == FALSE

\* Element.calculate_layout: the call returns at once when its arguments
\* equal those of the previous call.  The settings never change.
cache_hit(context) == context = self.context

\* Element.calculate_layout of the Sequence: nothing happens on a cache hit,
\* otherwise the content layout runs.
Element_calculate_layout(context) ==
    IF cache_hit(context)
    THEN UNCHANGED <<ridge_vars, load_vars, self, frame, item_context,
                     constructed, measure, trace, render_vars, laid_out>>
    ELSE Sequence_calculate_content_layout(context)

\* The first calculate_layout call on the Sequence.
Sequence_calculate_layout ==
    /\ frame.pc = "start"
    /\ \E context \in LayoutContexts : Element_calculate_layout(context)
    /\ UNCHANGED previous

\* replace(item_context, width=..., start_connection=STACK, start_direction=UP)
as_row_head(context, max_line_width) ==
    [context EXCEPT !.width = max_line_width,
                    !.start_connection = "STACK",
                    !.start_direction = "UP"]

\* The loop of _calculate_layout_multi_line, one iteration at a time.  Rows
\* hold positions in self._items.  The lists of the model keep
\* Len(_linebreaks) <= Len(_items), so zip_longest pads the linebreaks only.
\*
\* The locals that an iteration changes, gathered after each of its parts.
Locals(rows, row, current_width, margin, last_soft_break_idx, width_at_last_soft_break, margin_after_last_soft_break, max_line_width, context, contexts) ==
    [rows |-> rows, row |-> row, current_width |-> current_width,
     margin |-> margin, last_soft_break_idx |-> last_soft_break_idx,
     width_at_last_soft_break |-> width_at_last_soft_break,
     margin_after_last_soft_break |-> margin_after_last_soft_break,
     max_line_width |-> max_line_width, context |-> context,
     contexts |-> contexts]

\* "Prepare item's layout context", "Calculate item's layout" and the margin
\* to the previous item of the row.
wrap_layout_item(k) ==
    LET n == Len(self._items)
        context == frame.context
        base == [LayoutContext(frame.max_line_width, context.is_outer) EXCEPT
                    !.start_top_is_clear = TRUE, !.start_bottom_is_clear = TRUE,
                    !.end_top_is_clear = TRUE, !.end_bottom_is_clear = TRUE]
        first == IF frame.i = 0
                 THEN [base EXCEPT
                        !.opt_enter_top = context.opt_enter_top,
                        !.start_connection = self._start_connection,
                        !.start_top_is_clear = context.start_top_is_clear,
                        !.start_bottom_is_clear = context.start_bottom_is_clear,
                        !.start_direction = context.start_direction]
                 ELSE IF frame.current_row = <<>>
                 THEN [base EXCEPT !.start_connection = "STACK",
                                   !.start_direction = "UP"]
                 ELSE base
        item_ctx == IF frame.i = n - 1
                    THEN [first EXCEPT
                        !.opt_exit_bottom = context.opt_exit_bottom,
                        !.end_connection = self._end_connection,
                        !.end_top_is_clear = context.end_top_is_clear,
                        !.end_bottom_is_clear = context.end_bottom_is_clear,
                        !.end_direction = context.end_direction,
                        !.allow_shrinking_stacks = context.allow_shrinking_stacks]
                    ELSE first
        contexts == [item_context EXCEPT ![k] = item_ctx]
        row == frame.current_row
    IN Locals(self._item_rows, row, frame.current_width,
              IF row # <<>>
              THEN _calculate_gap(ItemMetrics(self._items, contexts, row[Len(row)]),
                                  ItemMetrics(self._items, contexts, k))
              ELSE 0,
              frame.last_soft_break_idx, frame.width_at_last_soft_break,
              frame.margin_after_last_soft_break, frame.max_line_width,
              item_ctx, contexts)

\* Mutant: the row is broken when the item fits.
needs_break_when_fits(l, k) ==
    /\ l.row # <<>>
    /\ l.current_width + l.margin
         + ItemMetrics(self._items, l.contexts, k).display_width
         + arc_size("STACK") <= l.max_line_width

\* current_row and current_width + margin + item.display_width + arc_size
\*     > max_line_width
needs_break(l, k) ==
    /\ l.row # <<>>
    /\ l.current_width + l.margin
         + ItemMetrics(self._items, l.contexts, k).display_width
         + arc_size("STACK") > l.max_line_width

\* "Make a soft break, if needed and possible."
wrap_soft_break(l, k) ==
    IF ~(needs_break(l, k) /\ l.last_soft_break_idx # 0) THEN l
    ELSE
        LET row == SubSeq(l.row, l.last_soft_break_idx + 1, Len(l.row))
            context == as_row_head(l.context, frame.max_width)
            contexts == IF row # <<>>
                        THEN [l.contexts EXCEPT ![row[1]] = context]
                        ELSE [l.contexts EXCEPT ![k] = context]
            cut == l.current_width
                    - (l.width_at_last_soft_break + l.margin_after_last_soft_break)
        IN Locals(Append(l.rows, SubSeq(l.row, 1, l.last_soft_break_idx)),
                  row,
                  IF row # <<>>
                  THEN cut - ItemMetrics(self._items, l.contexts, row[1]).display_width
                           + ItemMetrics(self._items, contexts, row[1]).display_width
                  ELSE cut,
                  IF row # <<>>
                  THEN _calculate_gap(
                            ItemMetrics(self._items, contexts, row[Len(row)]),
                            ItemMetrics(self._items, contexts, k))
                  ELSE 0,
                  0, 0, 0, frame.max_width, context, contexts)

\* "If we still need a break ... we'll have to break here."
wrap_forced_break(l, k) ==
    IF ~needs_break(l, k) THEN l
    ELSE Locals(Append(l.rows, l.row), <<>>, 0, 0, 0, 0, 0, frame.max_width,
                as_row_head(l.context, frame.max_width),
                [l.contexts EXCEPT ![k] = as_row_head(l.context, frame.max_width)])

\* Mutant: a HARD linebreak is handled like DEFAULT.
wrap_append_hard_ignored(l, k) ==
    LET row == Append(l.row, k)
        current_width == l.current_width + l.margin
                            + ItemMetrics(self._items, l.contexts, k).display_width
    IN Locals(l.rows, row, current_width, l.margin, l.last_soft_break_idx,
              l.width_at_last_soft_break, l.margin_after_last_soft_break,
              l.max_line_width, l.context, l.contexts)

\* The item joins the current row, and its linebreak is handled.
wrap_append(l, k) ==
    LET linebreak == IF k <= Len(self._linebreaks)
                     THEN self._linebreaks[k] ELSE "None"
        row == Append(l.row, k)
        current_width == l.current_width + l.margin
                            + ItemMetrics(self._items, l.contexts, k).display_width
    IN IF linebreak = "HARD"
       THEN Locals(Append(l.rows, row), <<>>, 0, l.margin, 0, 0, 0,
                   frame.max_width, l.context, l.contexts)
       ELSE IF linebreak = "SOFT"
       THEN Locals(l.rows, row, current_width, l.margin, Len(row), current_width,
                   l.margin_after_last_soft_break,
                   l.max_line_width, l.context, l.contexts)
       ELSE IF frame.i = l.last_soft_break_idx
       THEN Locals(l.rows, row, current_width, l.margin, l.last_soft_break_idx,
                   l.width_at_last_soft_break, l.margin,
                   l.max_line_width, l.context, l.contexts)
       ELSE Locals(l.rows, row, current_width, l.margin, l.last_soft_break_idx,
                   l.width_at_last_soft_break, l.margin_after_last_soft_break,
                   l.max_line_width, l.context, l.contexts)

WrapStep ==
    /\ frame.pc = "wrap"
    /\ frame.i < Len(self._items)
    /\ \E laid \in {wrap_layout_item(frame.i + 1)} :
       \E soft \in {wrap_soft_break(laid, frame.i + 1)} :
       \E forced \in {wrap_forced_break(soft, frame.i + 1)} :
       \E l \in {wrap_append(forced, frame.i + 1)} :
          /\ item_context' = l.contexts
          /\ self' = [self EXCEPT !._item_rows = l.rows]
          /\ frame' = Frame("wrap", frame.context, frame.i + 1, l.row,
                            l.current_width, l.last_soft_break_idx,
                            l.width_at_last_soft_break,
                            l.margin_after_last_soft_break,
                            frame.max_width, l.max_line_width)
          /\ trace' = [part |-> "iteration", k |-> frame.i + 1,
                        laid |-> laid, soft |-> soft, forced |-> forced]
    /\ UNCHANGED <<ridge_vars, load_vars, constructed, measure, previous, render_vars, laid_out>>

\* The code after the loop: the open row is closed, and the last item of
\* every row but the last is laid out again with a stack connection.
RECURSIVE relayout_row_ends(_, _, _)
relayout_row_ends(rows, contexts, r) ==
    IF r >= Len(rows) THEN contexts
    ELSE LET j == rows[r][Len(rows[r])]
         IN relayout_row_ends(rows,
                [contexts EXCEPT ![j] =
                    [contexts[j] EXCEPT !.end_connection = "STACK",
                                        !.end_direction = "DOWN",
                                        !.opt_exit_bottom = TRUE,
                                        !.allow_shrinking_stacks = TRUE]],
                r + 1)

WrapFinish ==
    /\ frame.pc = "wrap"
    /\ frame.i = Len(self._items)
    /\ LET rows == IF frame.current_row # <<>>
                   THEN Append(self._item_rows, frame.current_row)
                   ELSE self._item_rows
       IN /\ self' = [self EXCEPT !._item_rows = rows]
          /\ item_context' = relayout_row_ends(rows, item_context, 1)
    /\ frame' = [frame EXCEPT !.pc = "done"]
    /\ trace' = NoTrace
    /\ UNCHANGED <<ridge_vars, load_vars, constructed, measure, previous, render_vars, laid_out>>

NextLayout == Sequence_calculate_layout \/ WrapStep \/ WrapFinish

SpecLayout == InitLayout /\ [][NextLayout]_vars

(***************************************************************************)
(* Two calculate_layout calls in a row on the same Sequence.  The first    *)
(* call comes from a parent that lets the line pass straight through; the  *)
(* second call repeats the context of the first with a width of its own.   *)
(***************************************************************************)
RelayoutContexts ==
    {[LayoutContext(w, TRUE) EXCEPT
        !.start_top_is_clear = TRUE, !.start_bottom_is_clear = TRUE,
        !.end_top_is_clear = TRUE, !.end_bottom_is_clear = TRUE] :
     w \in LayoutWidths}

\* What the Sequence looked like when the second call was made.
Snapshot(context) ==
    [calls |-> 1, context |-> context, self |-> self,
     item_context |-> item_context, frame |-> frame]

Sequence_calculate_layout_first ==
    /\ frame.pc = "start"
    /\ \E context \in RelayoutContexts : Element_calculate_layout(context)
    /\ UNCHANGED previous

Sequence_calculate_layout_again ==
    /\ frame.pc = "done"
    /\ previous.calls = 0
    /\ \E width \in LayoutWidths :
        LET context == [self.context EXCEPT !.width = width]
        IN /\ previous' = Snapshot(context)
           /\ Element_calculate_layout(context)

NextRelayout ==
    \/ Sequence_calculate_layout_first
    \/ WrapStep
    \/ WrapFinish
    \/ Sequence_calculate_layout_again

SpecRelayout == InitLayout /\ [][NextRelayout]_vars

(***************************************************************************)
(* Attribute lookup.  barrier.py, end.py and one_or_more.py read and write *)
(* attributes by names with a leading underscore; what a lookup finds is   *)
(* decided by the names the classes define.                                *)
(***************************************************************************)
\* Names defined in the body of class Element.
ElementAttributes ==
    {"display_width", "content_width", "start_padding", "end_padding",
     "start_margin", "end_margin", "height", "up", "down", "settings",
     "context", "width", "precedence", "contains_choices",
     "can_use_opt_enters", "can_use_opt_exits", "_isolate",
     "calculate_layout", "_calculate_content_layout", "render",
     "_render_content", "top_ridge_line", "_calculate_top_ridge_line",
     "bottom_ridge_line", "_calculate_bottom_ridge_line"}

\* Names an object of each class has when its layout starts: those of
\* Element, and those its own class defines or sets when it is constructed.
Attributes(kind) ==
    ElementAttributes \cup
    (IF kind = "Sequence"
     THEN {"_items", "_linebreaks", "_join_no_breaks",
           "_calculate_layout_single_line", "_calculate_layout_multi_line",
           "_calculate_layout_metrics", "_calculate_gap"}
     ELSE IF kind = "Choice" THEN {"_items", "_default"}
     ELSE IF kind = "Node" THEN {"_text", "_style"}
     ELSE IF kind = "End" THEN {"_reverse"}
     ELSE IF kind = "Barrier" THEN {"_item", "_precedence"}
     ELSE IF kind = "Group"
     THEN {"_text", "_item", "_css_class", "_href", "_title"}
     ELSE IF kind = "OneOrMore"
     THEN {"_item", "_repeat", "_repeat_top", "_precedence", "_contains_choices"}
     ELSE {})

hasattr(element, name) == name \in Attributes(element.kind)

\* End(reverse); the text holds str(End).
End(reverse) == Element("End", IF reverse THEN "^" ELSE "$", <<>>, <<>>, 0, FALSE)

\* Barrier.__new__
Barrier_new(item) ==
    IF isinstance(item, "Barrier") \/ isinstance(item, "Skip") THEN item
    ELSE Element("Barrier", "", <<item>>, <<>>, 0, FALSE)

\* OneOrMore.__new__ without a repeat: _items holds _item and _repeat.
OneOrMore_new(item) ==
    IF isinstance(item, "Skip") THEN item
    ELSE Element("OneOrMore", "", <<Barrier_new(item), Skip>>, <<>>, 0, FALSE)

\* The exception a calculate_layout call on an element ends with, or "none".
\* A Sequence and a Choice lay their items out one after the other; the
\* first exception ends the call.
RECURSIVE calculate_layout_raises(_)
first_raised(errors) ==
    IF \A j \in 1..Len(errors) : errors[j] = "none" THEN "none"
    ELSE errors[CHOOSE j \in 1..Len(errors) :
                    /\ errors[j] # "none"
                    /\ \A k \in 1..(j - 1) : errors[k] = "none"]

\* Barrier._calculate_content_layout: self._item._calculate_layout(...)
Barrier_calculate_content_layout(item) ==
    IF hasattr(item, "_calculate_layout") THEN calculate_layout_raises(item)
    ELSE "AttributeError"

\* OneOrMore._calculate_content_layout: assert self._cached_context, then
\* self._item._calculate_layout(...) and self._repeat._calculate_layout(...)
OneOrMore_calculate_content_layout(element) ==
    IF ~hasattr(element, "_cached_context") THEN "AttributeError"
    ELSE IF ~hasattr(element._items[1], "_calculate_layout")
            \/ ~hasattr(element._items[2], "_calculate_layout")
    THEN "AttributeError"
    ELSE first_raised([j \in 1..2 |-> calculate_layout_raises(element._items[j])])

calculate_layout_raises(element) ==
    IF element.kind \in {"Skip", "Node", "End"} THEN "none"
    ELSE IF isinstance(element, "Barrier")
    THEN Barrier_calculate_content_layout(element._items[1])
    ELSE IF isinstance(element, "OneOrMore")
    THEN OneOrMore_calculate_content_layout(element)
    ELSE first_raised([j \in 1..Len(element._items) |->
                        calculate_layout_raises(element._items[j])])

(***************************************************************************)
(* Text renderer: one row of TextRender._field.  A cell holds a box        *)
(* drawing symbol, named by the directions _SYMBOL_TO_DIRECTION gives it,  *)
(* an arrow, a space, or text.                                             *)
(***************************************************************************)
FieldWidth == 3
MaxSegments == 1

\* _SYMBOL_TO_DIRECTION in the order of the source.  A symbol is named by
\* the directions its glyph shows (a capital letter is a heavy stroke);
\* arrow_* are the arrows, arc_* the rounded corners, space is " ".
SymbolTable ==
    <<<<"space", {}>>, <<"arrow_s", {"n", "s"}>>, <<"arrow_n", {"n", "s"}>>,
      <<"arrow_e", {"e", "w"}>>, <<"arrow_w", {"e", "w"}>>,
      <<"ew", {"e", "w"}>>, <<"EW", {"E", "W"}>>, <<"ns", {"n", "s"}>>,
      <<"NS", {"N", "S"}>>, <<"es", {"e", "s"}>>, <<"Es", {"E", "s"}>>,
      <<"eS", {"e", "S"}>>, <<"ES", {"E", "S"}>>, <<"sw", {"s", "w"}>>,
      <<"sW", {"s", "W"}>>, <<"Sw", {"S", "w"}>>, <<"SW", {"S", "W"}>>,
      <<"ne", {"n", "e"}>>, <<"nE", {"n", "E"}>>, <<"Ne", {"N", "e"}>>,
      <<"NE", {"N", "E"}>>, <<"wn", {"w", "n"}>>, <<"Wn", {"W", "n"}>>,
      <<"wN", {"w", "N"}>>, <<"WN", {"W", "N"}>>, <<"nes", {"n", "e", "s"}>>,
      <<"nEs", {"n", "E", "s"}>>, <<"Nes", {"N", "e", "s"}>>,
      <<"neS", {"n", "e", "S"}>>, <<"NeS", {"N", "e", "S"}>>,
      <<"NEs", {"N", "E", "s"}>>, <<"nES", {"n", "E", "S"}>>,
      <<"NES", {"N", "E", "S"}>>, <<"nsw", {"n", "s", "w"}>>,
      <<"nsW", {"n", "s", "W"}>>, <<"Nsw", {"N", "s", "w"}>>,
      <<"nSw", {"n", "S", "w"}>>, <<"NSw", {"N", "S", "w"}>>,
      <<"NsW", {"N", "s", "W"}>>, <<"nSW", {"n", "S", "W"}>>,
      <<"NSW", {"N", "S", "W"}>>, <<"esw", {"e", "s", "w"}>>,
      <<"Esw", {"E", "s", "w"}>>, <<"esW", {"e", "s", "W"}>>,
      <<"EsW", {"E", "s", "W"}>>, <<"eSw", {"e", "S", "w"}>>,
      <<"ESw", {"E", "S", "w"}>>, <<"eSW", {"e", "S", "W"}>>,
      <<"ESW", {"E", "S", "W"}>>, <<"new", {"n", "e", "w"}>>,
      <<"neW", {"n", "e", "W"}>>, <<"nEw", {"n", "E", "w"}>>,
      <<"nEW", {"n", "E", "W"}>>, <<"New", {"N", "e", "w"}>>,
      <<"NeW", {"N", "e", "W"}>>, <<"NEw", {"N", "E", "w"}>>,
      <<"NEW", {"N", "E", "W"}>>, <<"nesw", {"n", "e", "s", "w"}>>,
      <<"nEsw", {"n", "E", "s", "w"}>>, <<"nesW", {"n", "e", "s", "W"}>>,
      <<"nEsW", {"n", "E", "s", "W"}>>, <<"Nesw", {"N", "e", "s", "w"}>>,
      <<"neSw", {"n", "e", "S", "w"}>>, <<"NeSw", {"N", "e", "S", "w"}>>,
      <<"NesW", {"N", "e", "s", "W"}>>, <<"NEsw", {"N", "E", "s", "w"}>>,
      <<"neSW", {"n", "e", "S", "W"}>>, <<"nESw", {"n", "E", "S", "w"}>>,
      <<"NEsW", {"N", "e", "s", "W"}>>, <<"nESW", {"n", "E", "S", "W"}>>,
      <<"NeSW", {"N", "e", "S", "W"}>>, <<"NESw", {"N", "E", "S", "w"}>>,
      <<"NESW", {"N", "E", "S", "W"}>>, <<"w", {"w"}>>, <<"n", {"n"}>>,
      <<"e", {"e"}>>, <<"s", {"s"}>>, <<"W", {"W"}>>, <<"N", {"N"}>>,
      <<"E", {"E"}>>, <<"S", {"S"}>>, <<"Ew", {"E", "w"}>>,
      <<"nS", {"n", "S"}>>, <<"eW", {"e", "W"}>>, <<"Ns", {"N", "s"}>>,
      <<"arc_es", {"e", "s"}>>, <<"arc_sw", {"s", "w"}>>,
      <<"arc_ne", {"n", "e"}>>, <<"arc_wn", {"w", "n"}>>>>

Symbols == {SymbolTable[i][1] : i \in DOMAIN SymbolTable}

_SYMBOL_TO_DIRECTION(symbol) ==
    SymbolTable[CHOOSE i \in DOMAIN SymbolTable : SymbolTable[i][1] = symbol][2]

Heavy == {"N", "E", "S", "W"}

lower(c) ==
    CASE c = "N" -> "n" [] c = "E" -> "e" [] c = "S" -> "s" [] c = "W" -> "w"
      [] OTHER -> c

\* The strokes a direction set shows: a light stroke is covered by the
\* heavy one of the same direction.
strongest(d) == {c \in d : c \in Heavy \/ \A h \in d \cap Heavy : lower(h) # c}

\* _DIRECTION_TO_SYMBOL[d], or "KeyError".  The dictionary holds the
\* direction sets of the table, each with the last symbol that has it, and
\* for each of them the sets that add the light strokes of its heavy ones.
_DIRECTION_TO_SYMBOL(d) ==
    LET k == strongest(d)
        entries == {i \in DOMAIN SymbolTable : SymbolTable[i][2] = k}
    IN IF entries = {} THEN "KeyError" ELSE SymbolTable[SetMax(entries)][1]

\* The direction set _write_cell looks up for the cell at x (from 0).
_write_cell_key(field, x, d) ==
    IF field[x + 1] = "space" THEN d
    ELSE d \cup _SYMBOL_TO_DIRECTION(field[x + 1])

\* The exception _write_cell ends with, or "none".
_write_cell_raises(field, x, d) ==
    IF field[x + 1] \notin Symbols THEN "none"
    ELSE IF field[x + 1] # "space" /\ d = _write_cell_key(field, x, d) THEN "none"
    ELSE IF _DIRECTION_TO_SYMBOL(_write_cell_key(field, x, d)) = "KeyError"
    THEN "KeyError"
    ELSE "none"

\* Mutant: the cell is rewritten whenever the merged set differs from the
\* set the cell held.
_write_cell_compares_cell(field, x, d) ==
    IF field[x + 1] \notin Symbols \/ _write_cell_raises(field, x, d) # "none"
    THEN field
    ELSE [field EXCEPT ![x + 1] = _DIRECTION_TO_SYMBOL(_write_cell_key(field, x, d))]

\* TextRender._write_cell on the cell at x (counted from 0): the field it
\* leaves.  A cell that holds the written directions and more is rewritten;
\* a cell whose directions are all among the written ones is left alone.
_write_cell(field, x, d) ==
    IF field[x + 1] \notin Symbols THEN field
    ELSE IF _write_cell_raises(field, x, d) # "none" THEN field
    ELSE IF field[x + 1] = "space"
    THEN [field EXCEPT ![x + 1] = _DIRECTION_TO_SYMBOL(d)]
    ELSE IF d # _write_cell_key(field, x, d)
    THEN [field EXCEPT ![x + 1] = _DIRECTION_TO_SYMBOL(_write_cell_key(field, x, d))]
    ELSE field

\* for i in range(w): _write_cell(pos + Vec(i, 0), "we"), and
\* for i in range(-1, w - 1, -1): the same.  Cells from..(to - 1).
RECURSIVE write_cells(_, _, _)
write_cells(field, from, to) ==
    IF from >= to THEN field
    ELSE write_cells(_write_cell(field, from, {"w", "e"}), from + 1, to)

\* Mutant: a segment drawn backwards starts at the cell of its position.
segment_abs_from_pos(field, pos, x, arrow_begin, arrow_end) ==
    IF x > pos
    THEN write_cells(field, pos, x)
    ELSE IF x < pos
    THEN write_cells(field, x + 1, pos + 1)
    ELSE field

\* _TextLine.segment_abs: the field after a segment from pos to x.
segment_abs(field, pos, x, arrow_begin, arrow_end) ==
    IF x > pos
    THEN LET drawn == write_cells(field, pos, x)
             begun == IF arrow_begin
                      THEN [drawn EXCEPT ![pos + 1] = "arrow_e"] ELSE drawn
         IN IF arrow_end THEN [begun EXCEPT ![x] = "arrow_e"] ELSE begun
    ELSE IF x < pos
    THEN LET drawn == write_cells(field, x, pos)
             begun == IF arrow_begin
                      THEN [drawn EXCEPT ![pos] = "arrow_w"] ELSE drawn
         IN IF arrow_end THEN [begun EXCEPT ![x + 1] = "arrow_w"] ELSE begun
    ELSE field

\* A row of the field on which nodes and vertical lines were drawn.
TextLineInit ==
    /\ laid_out = NoElement
    /\ calls = <<>>
    /\ text_render \in
        {[_field |-> f, line |-> NoLine, segment |-> NoSegment, drawn |-> 0] :
            f \in [1..FieldWidth -> {"space", "ns", "text"}]}

InitTextLine ==
    /\ RidgeIdle
    /\ LoadInit
    /\ self = Skip
    /\ frame = NoFrame
    /\ item_context = <<>>
    /\ constructed = Skip
    /\ measure = <<>>
    /\ trace = NoTrace
    /\ previous = NoPrevious
    /\ TextLineInit

\* TextRender.line(pos, reverse)
TextRender_line ==
    /\ \E x \in 0..FieldWidth, reverse \in BOOLEAN :
        text_render' = [text_render EXCEPT !.line = [x |-> x, reverse |-> reverse]]
    /\ UNCHANGED <<ridge_vars, load_vars, layout_vars, calls, laid_out>>

\* _TextLine.segment_abs(x, arrow_begin, arrow_end)
TextLine_segment_abs ==
    /\ text_render.line # NoLine
    /\ text_render.drawn < MaxSegments
    /\ \E x \in 0..FieldWidth, arrow_begin \in BOOLEAN, arrow_end \in BOOLEAN :
        text_render' =
            [_field |-> segment_abs(text_render._field, text_render.line.x, x,
                                    arrow_begin, arrow_end),
             line |-> [text_render.line EXCEPT !.x = x],
             segment |-> [from |-> text_render.line.x, to |-> x,
                          before |-> text_render._field,
                          arrow_begin |-> arrow_begin, arrow_end |-> arrow_end],
             drawn |-> text_render.drawn + 1]
    /\ UNCHANGED <<ridge_vars, load_vars, layout_vars, calls, laid_out>>

NextTextLine == TextRender_line \/ TextLine_segment_abs

SpecTextLine == InitTextLine /\ [][NextTextLine]_vars

\* ---------------------------------------------------------------------
\* One cell of the text grid under the writes of lines and group borders
\* ---------------------------------------------------------------------

MaxWrites == 3

\* What node() leaves in a cell: the label, a border glyph of a terminal
\* node (these are in the table), a border glyph of a non-terminal node
\* ("double" stands for the double-line glyphs, which are not).
NodeCells == {"text", "double", "ew", "ns", "nsw", "nes"}

\* The direction sets bend() writes: coming_from + coming_to when h = 0;
\* coming_from + "s" or "n" at the first cell, "ns" between, "n" or "s" +
\* coming_to at the last cell, where coming_to may be None.
BendWrites ==
    {{"w", "e"}, {"w"}, {"e"}, {"n", "s"}, {"n"}, {"s"},
     {"w", "s"}, {"e", "s"}, {"w", "n"}, {"e", "n"}}

\* The direction sets group() writes: corners, then edges.
GroupWrites ==
    {{"E", "S"}, {"S", "W"}, {"N", "E"}, {"N", "W"}, {"E", "W"}, {"N", "S"}}

CellInit ==
    /\ laid_out = NoElement
    /\ calls = <<>>
    /\ text_render \in
        {[_field |-> <<c>>, initial |-> c, written |-> {}, key |-> {},
          lines_only |-> TRUE, writes |-> 0, raised |-> "none"] :
            c \in {"space"} \cup NodeCells}

InitCell ==
    /\ RidgeIdle
    /\ LoadInit
    /\ self = Skip
    /\ frame = NoFrame
    /\ item_context = <<>>
    /\ constructed = Skip
    /\ measure = <<>>
    /\ trace = NoTrace
    /\ previous = NoPrevious
    /\ CellInit

\* One call of _write_cell on the cell, then the arrow (or "none") stored
\* into the cell after it.
Cell_write(d, arrow, lines) ==
    LET field == text_render._field
        raised == _write_cell_raises(field, 0, d)
        after == _write_cell(field, 0, d)
    IN text_render' =
        [_field |-> IF raised = "none" /\ arrow # "none" THEN <<arrow>> ELSE after,
         initial |-> text_render.initial,
         written |-> text_render.written \cup d,
         key |-> IF field[1] \in Symbols THEN _write_cell_key(field, 0, d) ELSE {},
         lines_only |-> text_render.lines_only /\ lines /\ arrow = "none",
         writes |-> text_render.writes + 1,
         raised |-> raised]

\* _TextLine.segment_abs passing over the cell: _write_cell(pos, "we"),
\* then the arrow when the cell is the one arrow_begin or arrow_end names.
Cell_segment_abs ==
    /\ text_render.writes < MaxWrites
    /\ text_render.raised = "none"
    /\ \E arrow \in {"none", "arrow_e", "arrow_w"} :
        Cell_write({"w", "e"}, arrow, TRUE)
    /\ UNCHANGED <<ridge_vars, load_vars, layout_vars, calls, laid_out>>

\* _TextLine.bend passing over the cell; arrow_end puts its arrow into a
\* cell of the vertical run after the run is written.
Cell_bend ==
    /\ text_render.writes < MaxWrites
    /\ text_render.raised = "none"
    /\ \E d \in BendWrites, arrow \in {"none", "arrow_s", "arrow_n"} :
        /\ arrow # "none" => d \cap {"n", "s"} # {}
        /\ Cell_write(d, arrow, TRUE)
    /\ UNCHANGED <<ridge_vars, load_vars, layout_vars, calls, laid_out>>

\* TextRender.group drawing a corner or an edge of its border in the cell.
Cell_group ==
    /\ text_render.writes < MaxWrites
    /\ text_render.raised = "none"
    /\ \E d \in GroupWrites : Cell_write(d, "none", FALSE)
    /\ UNCHANGED <<ridge_vars, load_vars, layout_vars, calls, laid_out>>

NextCell == Cell_segment_abs \/ Cell_bend \/ Cell_group

SpecCell == InitCell /\ [][NextCell]_vars

(***************************************************************************)
(* render_text and calculate_layout calls                                  *)
(***************************************************************************)
MaxCalls == 2

EndClass == {"SIMPLE", "COMPLEX"}

RenderReturned(text) == [err |-> "none", text |-> text]
RenderRaised(exc) == [err |-> exc, text |-> <<>>]

\* The trees handed to render_text and calculate_layout.
RenderTrees ==
    {Skip, Node("A"),
     Sequence_new(<<Node("A"), Node("B")>>, NoLinebreaks).value,
     OneOrMore_new(Node("A"))}

\* render_text: the tree is put between two End markers and laid out; an
\* exception of the layout ends the call.  What is drawn after a layout that
\* returns is left out: no layout of this tree returns.
render_text(node, end_class, reverse) ==
    LET inner == Sequence_new(<<node, End(TRUE)>>, OneLinebreak("NO_BREAK")).value
        root == Sequence_new(<<End(FALSE), Barrier_new(inner)>>,
                             OneLinebreak("NO_BREAK")).value
        raised == calculate_layout_raises(root)
    IN IF raised # "none" THEN RenderRaised(raised) ELSE RenderReturned(<<>>)

RenderInit ==
    /\ laid_out = NoElement
    /\ calls = <<>>
    /\ text_render = [_field |-> <<>>, line |-> NoLine, segment |-> NoSegment, drawn |-> 0]

InitRender ==
    /\ RidgeIdle
    /\ LoadInit
    /\ self = Skip
    /\ frame = NoFrame
    /\ item_context = <<>>
    /\ constructed = Skip
    /\ measure = <<>>
    /\ trace = NoTrace
    /\ previous = NoPrevious
    /\ RenderInit

render_text_call ==
    /\ Len(calls) < MaxCalls
    /\ \E node \in RenderTrees, end_class \in EndClass, reverse \in BOOLEAN :
        calls' = Append(calls,
            [fn |-> "render_text", node |-> node, end_class |-> end_class,
             reverse |-> reverse,
             outcome |-> render_text(node, end_class, reverse)])
    /\ UNCHANGED <<ridge_vars, load_vars, layout_vars, text_render, laid_out>>

\* calculate_layout on a tree that is not wrapped by render_text.
calculate_layout_call ==
    /\ Len(calls) < MaxCalls
    /\ \E node \in RenderTrees :
        calls' = Append(calls,
            [fn |-> "calculate_layout", node |-> node, end_class |-> "SIMPLE",
             reverse |-> FALSE,
             outcome |-> IF calculate_layout_raises(node) # "none"
                         THEN RenderRaised(calculate_layout_raises(node))
                         ELSE RenderReturned(<<>>)])
    /\ UNCHANGED <<ridge_vars, load_vars, layout_vars, text_render, laid_out>>

NextRender == render_text_call \/ calculate_layout_call

SpecRender == InitRender /\ [][NextRender]_vars

(***************************************************************************)
(* Layout of single elements                                               *)
(***************************************************************************)
MaxPadding == 3
MaxMargin == 4

\* Paddings and margins of a laid out element: non-negative integers; a
\* margin may be smaller than the padding of its side (a Skip behind a
\* STACK_BOUND connection has padding 2 and margin 0).
SideMetrics ==
    {Metrics(0, 0, sp, ep, sm, em) :
        sp \in {0}, ep \in 0..MaxPadding, sm \in {0}, em \in 0..MaxMargin}
    \cup
    {Metrics(0, 0, sp, ep, sm, em) :
        sp \in 0..MaxPadding, ep \in {0}, sm \in 0..MaxMargin, em \in {0}}

\* Every behaviour lays out one element, starting with none laid out.
InitElement ==
    /\ RidgeIdle
    /\ LoadInit
    /\ LayoutIdle

\* Sequence._calculate_gap(prev, next, settings) for two neighbours of a row.
Sequence_calculate_gap ==
    /\ laid_out = NoElement
    /\ \E prev \in SideMetrics, next \in SideMetrics :
        laid_out' = [class |-> "Sequence", op |-> "_calculate_gap",
                     prev |-> prev, next |-> next,
                     gap |-> _calculate_gap(prev, next)]
    /\ UNCHANGED <<ridge_vars, load_vars, layout_vars, render_vars>>

\* Widths offered to an element: none, less than two arcs, room for all.
ElementWidths == {0, 3, 40}

\* What _calculate_content_layout left: a Skip (nothing), a Node with a text
\* of width 1, a wrapped Sequence with padded rows.
ContentMetrics ==
    {Metrics(0, 0, 0, 0, 0, 0),
     Metrics(1 + 2 * terminal_horizontal_padding, 1 + 2 * terminal_horizontal_padding,
             0, 0, horizontal_seq_separation, horizontal_seq_separation),
     Metrics(9, 5, 2, 2, 3, 5)}

\* Element.calculate_layout of an element whose _calculate_content_layout
\* calls self._isolate(start, end) and leaves the metrics `content`.
Element_calculate_layout_isolated ==
    /\ laid_out = NoElement
    /\ \E width \in ElementWidths, start_connection \in ConnectionType,
          end_connection \in ConnectionType, start \in BOOLEAN, end \in BOOLEAN,
          content \in ContentMetrics :
        LET context == [LayoutContext(width, FALSE) EXCEPT
                            !.start_connection = start_connection,
                            !.end_connection = end_connection]
        IN laid_out' = [class |-> "Element", op |-> "calculate_layout",
                        context |-> context,
                        isolated_start |-> start, isolated_end |-> end,
                        content_context |-> _isolate(context, start, end),
                        content |-> content,
                        metrics |-> calculate_layout_adjust(content, context, start, end)]
    /\ UNCHANGED <<ridge_vars, load_vars, layout_vars, render_vars>>

(***************************************************************************)
(* Choice._calculate_content_layout                                        *)
(***************************************************************************)
MaxBranches == 3

\* Element.can_use_opt_enters and its overrides in Choice and Sequence.
RECURSIVE can_use_opt_enters(_)
can_use_opt_enters(item) ==
    IF isinstance(item, "Choice") THEN item._has_skip
    ELSE IF isinstance(item, "Sequence") THEN can_use_opt_enters(item._items[1])
    ELSE FALSE

\* Element.can_use_opt_exits and its overrides in Choice and Sequence.
RECURSIVE can_use_opt_exits(_)
can_use_opt_exits(item) ==
    IF isinstance(item, "Choice") THEN item._has_skip
    ELSE IF isinstance(item, "Sequence")
    THEN can_use_opt_exits(item._items[Len(item._items)])
    ELSE FALSE

\* The opt-line absorption at the head of the handler: skip_skips,
\* _connect_opt_enter, _connect_opt_exit.
Choice_absorb(choice, context) ==
    IF ~choice._has_skip
    THEN [skip_skips |-> FALSE, _connect_opt_enter |-> FALSE, _connect_opt_exit |-> FALSE]
    ELSE IF \/ context.opt_enter_top /\ context.opt_exit_top
            \/ context.opt_enter_bottom /\ context.opt_exit_bottom
    THEN [skip_skips |-> TRUE, _connect_opt_enter |-> FALSE, _connect_opt_exit |-> FALSE]
    ELSE [skip_skips |-> context.opt_enter_top \/ context.opt_enter_bottom
                         \/ context.opt_exit_top \/ context.opt_exit_bottom,
          _connect_opt_enter |-> context.opt_enter_top \/ context.opt_enter_bottom,
          _connect_opt_exit |-> context.opt_exit_top \/ context.opt_exit_bottom]

\* The loop that drops the Skips: position i (from 1) of self._items.
RECURSIVE Choice_elide_loop(_, _, _, _)
Choice_elide_loop(choice, i, items, default) ==
    IF i > Len(choice._items) THEN [items |-> items, default |-> default]
    ELSE Choice_elide_loop(
            choice, i + 1,
            IF isinstance(choice._items[i], "Skip") THEN items
            ELSE Append(items, choice._items[i]),
            IF i - 1 = choice._default THEN Len(items) ELSE default)

\* Mutant: the default is not moved when the Skips are dropped.
Choice_elide_keeps_default(choice, skip_skips) ==
    IF skip_skips
    THEN [items |-> Choice_elide_loop(choice, 1, <<>>, 0).items, default |-> choice._default]
    ELSE [items |-> choice._items, default |-> choice._default]

\* The branches that are laid out and the default among them (0-based).
Choice_elide(choice, skip_skips) ==
    IF skip_skips
    THEN LET kept == Choice_elide_loop(choice, 1, <<>>, 0)
         IN [items |-> kept.items,
             default |-> IF kept.default >= Len(kept.items)
                         THEN Len(kept.items) - 1 ELSE kept.default]
    ELSE [items |-> choice._items, default |-> choice._default]

\* Mutant: every connection is promoted to SPLIT.
Choice_connection_always_split(incoming, branches, connect_other) == "SPLIT"

\* self._start_connection / self._end_connection: a single branch splits
\* only for an opt line connected on the other side.
Choice_connection(incoming, branches, connect_other) ==
    IF incoming \in {"NORMAL", "STACK_BOUND"} /\ (branches # 1 \/ connect_other)
    THEN "SPLIT"
    ELSE incoming

NoRails == [upper_enters |-> FALSE, upper_exits |-> FALSE,
            lower_enters |-> FALSE, lower_exits |-> FALSE]

\* What the branches next to the first Skip of `items` can use.
Choice_rails_found(items) ==
    LET skips == {i \in 1..Len(items) : isinstance(items[i], "Skip")}
    IN IF skips = {} THEN NoRails
       ELSE LET i == SetMin(skips)
            IN [upper_enters |-> i > 1 /\ can_use_opt_enters(items[i - 1]),
                upper_exits |-> i > 1 /\ can_use_opt_exits(items[i - 1]),
                lower_enters |-> i < Len(items) /\ can_use_opt_enters(items[i + 1]),
                lower_exits |-> i < Len(items) /\ can_use_opt_exits(items[i + 1])]

\* Mutant: the rails keep what their branches can use.
Choice_rails_unchecked(items) == Choice_rails_found(items)

\* The _upper_rail_* / _lower_rail_* flags: what the branches next to the
\* first Skip can use, then the four overrides in the order of the source.
Choice_rails(items) ==
    LET found == Choice_rails_found(items)
        lower_exits == found.lower_exits /\ ~found.upper_enters
        upper_exits == found.upper_exits /\ ~found.lower_enters
        lower_enters == found.lower_enters /\ ~upper_exits
        upper_enters == found.upper_enters /\ ~lower_exits
    IN [upper_enters |-> upper_enters, upper_exits |-> upper_exits,
        lower_enters |-> lower_enters, lower_exits |-> lower_exits]

\* Mutant: the branches above the default turn up.
Choice_direction_up_above(i, default) ==
    IF i < default THEN "UP" ELSE IF i > default THEN "DOWN" ELSE "STRAIGHT"

\* Direction of branch i (0-based) of the layout loop.
Choice_direction(i, default) ==
    IF i < default THEN "DOWN" ELSE IF i > default THEN "UP" ELSE "STRAIGHT"

\* line_context of branch i (0-based) of `items`.
Choice_line_context(context, items, default, i, fields) ==
    LET n == Len(items)
        first == i = 0
        final == i = n - 1
        after_skip == ~first /\ isinstance(items[i], "Skip")
        before_skip == ~final /\ isinstance(items[i + 2], "Skip")
    IN [width |-> context.width,
        is_outer |-> FALSE,
        start_connection |-> fields._start_connection,
        start_top_is_clear |->
            IF first /\ (~fields._connect_opt_exit \/ ~context.opt_exit_top)
            THEN context.start_top_is_clear ELSE FALSE,
        start_bottom_is_clear |->
            IF final /\ (~fields._connect_opt_exit \/ ~context.opt_exit_bottom)
            THEN context.start_bottom_is_clear ELSE FALSE,
        start_direction |-> Choice_direction(i, default),
        end_connection |-> fields._end_connection,
        end_top_is_clear |->
            IF first /\ (~fields._connect_opt_enter \/ ~context.opt_enter_top)
            THEN context.end_top_is_clear ELSE FALSE,
        end_bottom_is_clear |->
            IF final /\ (~fields._connect_opt_enter \/ ~context.opt_enter_bottom)
            THEN context.end_bottom_is_clear ELSE FALSE,
        end_direction |-> Choice_direction(i, default),
        allow_shrinking_stacks |-> context.allow_shrinking_stacks /\ first,
        opt_enter_top |->
            IF first THEN context.opt_enter_top
            ELSE after_skip /\ fields.rails.lower_enters,
        opt_exit_top |->
            IF first THEN context.opt_exit_top
            ELSE after_skip /\ fields.rails.lower_exits,
        opt_enter_bottom |->
            IF final THEN context.opt_enter_bottom
            ELSE before_skip /\ fields.rails.upper_enters,
        opt_exit_bottom |->
            IF final THEN context.opt_exit_bottom
            ELSE before_skip /\ fields.rails.upper_exits]

\* The fields of the Choice and the contexts of its branches after
\* _calculate_content_layout.  Positions and metrics, which the handler
\* computes from the layouts of the branches, are not carried.
Choice_calculate_content_layout(choice, context) ==
    LET absorbed == Choice_absorb(choice, context)
        kept == Choice_elide(choice, absorbed.skip_skips)
        n == Len(kept.items)
        fields == [_connect_opt_enter |-> absorbed._connect_opt_enter,
                   _connect_opt_exit |-> absorbed._connect_opt_exit,
                   _start_connection |->
                        Choice_connection(context.start_connection, n,
                                          absorbed._connect_opt_exit),
                   _end_connection |->
                        Choice_connection(context.end_connection, n,
                                          absorbed._connect_opt_enter),
                   rails_set |-> n # 1,
                   rails |-> IF n # 1 THEN Choice_rails(kept.items) ELSE NoRails]
    IN [class |-> "Choice", op |-> "_calculate_content_layout",
        self |-> choice, context |-> context,
        items |-> kept.items, default |-> kept.default,
        fields |-> fields,
        line_context |->
            [j \in 1..n |-> Choice_line_context(context, kept.items, kept.default,
                                                 j - 1, fields)]]

Optional(item) == Choice_new(<<Skip, item>>, 1).value

\* Branches: a Skip, a Node, and Sequences that begin and / or end with an
\* optional element.
Branches ==
    {Skip, Node("A"),
     Sequence_new(<<Optional(Node("A")), Node("B")>>, NoLinebreaks).value,
     Sequence_new(<<Node("A"), Optional(Node("B"))>>, NoLinebreaks).value,
     Sequence_new(<<Optional(Node("A")), Optional(Node("B"))>>, NoLinebreaks).value}

\* The Choices that Choice.__new__ builds of 2..MaxBranches branches.
Choices ==
    {c \in {Choice_new(items, default).value :
                items \in UNION {[1..n -> Branches] : n \in 2..MaxBranches},
                default \in 0..(MaxBranches - 1)} :
        isinstance(c, "Choice")}

\* Contexts of a Choice: every connection and every offer of opt lines.
ChoiceContexts ==
    {[LayoutContext(40, FALSE) EXCEPT
        !.start_connection = sc, !.end_connection = ec,
        !.start_top_is_clear = TRUE, !.start_bottom_is_clear = TRUE,
        !.end_top_is_clear = TRUE, !.end_bottom_is_clear = TRUE,
        !.allow_shrinking_stacks = TRUE,
        !.opt_enter_top = o[1], !.opt_enter_bottom = o[2],
        !.opt_exit_top = o[3], !.opt_exit_bottom = o[4]] :
        sc \in ConnectionType, ec \in ConnectionType, o \in [1..4 -> BOOLEAN]}

Choice_layout ==
    /\ laid_out = NoElement
    /\ \E choice \in Choices, context \in ChoiceContexts :
        laid_out' = Choice_calculate_content_layout(choice, context)
    /\ UNCHANGED <<ridge_vars, load_vars, layout_vars, render_vars>>

(***************************************************************************)
(* Barrier and Group                                                       *)
(***************************************************************************)
\* The context Barrier._calculate_content_layout prepares for its item:
\* self._isolate(), then the four opt lines set to None.
Barrier_item_context(context) ==
    [_isolate(context, TRUE, TRUE) EXCEPT
        !.opt_enter_top = FALSE, !.opt_enter_bottom = FALSE,
        !.opt_exit_top = FALSE, !.opt_exit_bottom = FALSE]

\* Barrier._calculate_top_ridge_line / _calculate_bottom_ridge_line read
\* self._item._top_ridge_line / self._item._bottom_ridge_line.
Barrier_calculate_ridge_line(item, name) ==
    IF hasattr(item, name) THEN "none" ELSE "AttributeError"

\* Group.__init__: the item is put behind a Barrier.
Group_new(item, text) == Element("Group", text, <<Barrier_new(item)>>, <<>>, 0, FALSE)

\* The context Group._calculate_content_layout prepares for its item.
Group_item_context(context) ==
    [_isolate(context, TRUE, TRUE) EXCEPT
        !.width = Max2(0, @ - 2 * (group_vertical_padding + group_thickness)),
        !.allow_shrinking_stacks = FALSE]

\* Group._calculate_content_layout: self._item._calculate_layout(...)
Group_calculate_content_layout(group) ==
    IF hasattr(group._items[1], "_calculate_layout")
    THEN calculate_layout_raises(group._items[1])
    ELSE "AttributeError"

\* What a Barrier or a Group is put around.
Wrapped_items ==
    {Node("A"),
     Sequence_new(<<Node("A"), Node("B")>>, NoLinebreaks).value,
     Optional(Node("A"))}

\* Barrier.calculate_layout and the ridge lines of the Barrier.  The call
\* raises before the item is laid out, so the fields of the Barrier stay as
\* calculate_layout reset them.
Barrier_layout ==
    /\ laid_out = NoElement
    /\ \E item \in Wrapped_items, context \in ChoiceContexts :
        laid_out' = [class |-> "Barrier", op |-> "calculate_layout",
                     self |-> Barrier_new(item), context |-> context,
                     item_context |-> Barrier_item_context(context),
                     raised |-> Barrier_calculate_content_layout(item),
                     top_ridge_line_raised |->
                        Barrier_calculate_ridge_line(item, "_top_ridge_line"),
                     bottom_ridge_line_raised |->
                        Barrier_calculate_ridge_line(item, "_bottom_ridge_line"),
                     metrics |-> Metrics(0, 0, 0, 0, 0, 0)]
    /\ UNCHANGED <<ridge_vars, load_vars, layout_vars, render_vars>>

\* Group.calculate_layout.  The call raises before the item is laid out.
Group_layout ==
    /\ laid_out = NoElement
    /\ \E item \in Wrapped_items \cup {Skip}, text \in {"", "A"},
          width \in ElementWidths \cup {5},
          start_connection \in ConnectionType, end_connection \in ConnectionType :
        LET context == [LayoutContext(width, FALSE) EXCEPT
                            !.start_connection = start_connection,
                            !.end_connection = end_connection,
                            !.allow_shrinking_stacks = TRUE]
            group == Group_new(item, text)
        IN laid_out' = [class |-> "Group", op |-> "calculate_layout",
                        self |-> group, context |-> context,
                        isolated_context |-> _isolate(context, TRUE, TRUE),
                        item_context |-> Group_item_context(context),
                        raised |-> Group_calculate_content_layout(group),
                        metrics |-> Metrics(0, 0, 0, 0, 0, 0)]
    /\ UNCHANGED <<ridge_vars, load_vars, layout_vars, render_vars>>

NextElement ==
    \/ Sequence_calculate_gap
    \/ Element_calculate_layout_isolated
    \/ Choice_layout
    \/ Barrier_layout
    \/ Group_layout

SpecElement == InitElement /\ [][NextElement]_vars

(***************************************************************************)
(* Ridge line claims                                                       *)
(***************************************************************************)
\* Value of the step function: `before` left of the first breakpoint,
\* y_i on [x_i, x_{i+1}).
Value(r, x) ==
    LET idx == {i \in 1..Len(r.ridge) : r.ridge[i].x <= x}
    IN IF idx = {} THEN r.before ELSE r.ridge[SetMax(idx)].y

SampleXs == (0 - 1)..(MaxX + 1)

StrictlyOrdered(ridge) ==
    \A i \in 1..(Len(ridge) - 1) : ridge[i].x < ridge[i + 1].x

\* C7: the step function of merge_ridge_lines(a, b, cmp) equals
\* cmp(a(x), b(x)) at every x, for cmp in {max, min}.
C7_MergeIsPointwise ==
    /\ rop = "merge_max" =>
        \A x \in SampleXs :
            Value(rl_out, x) = Max2(Value(lhs, x), Value(rhs, x))
    /\ rop = "merge_min" =>
        \A x \in SampleXs :
            Value(rl_out, x) = Min2(Value(lhs, x), Value(rhs, x))

C7_Witness ==
    /\ rop = "merge_max"
    /\ Len(lhs.ridge) = 2 /\ Len(rhs.ridge) = 2
    /\ StrictlyOrdered(lhs.ridge) /\ StrictlyOrdered(rhs.ridge)
    /\ lhs.ridge[1].x # rhs.ridge[1].x
    /\ \E x \in SampleXs : Value(lhs, x) > Value(rhs, x)
    /\ \E x \in SampleXs : Value(lhs, x) < Value(rhs, x)
    /\ Len(rl_out.ridge) >= 3

\* max over all x of a(x) + b(x)
MaxSum(a, b) == SetMax({Value(a, x) + Value(b, x) : x \in SampleXs})

\* C8 (as stated): for all ridge lines a and b, find_distance(a, b) is the
\* maximum over all x of a(x) + b(x).
C8_DistanceIsMaxSum ==
    rop = "distance" => rl_dist = MaxSum(lhs, rhs)

\* C8 (amended): find_distance(a, b) is the maximum over all x of
\* a(x) + b(x) when neither line has two breakpoints at the same x; in
\* general it is never smaller than that maximum.
C8_DistanceIsMaxSumStrict ==
    rop = "distance" =>
        /\ rl_dist >= MaxSum(lhs, rhs)
        /\ (StrictlyOrdered(lhs.ridge) /\ StrictlyOrdered(rhs.ridge))
              => rl_dist = MaxSum(lhs, rhs)

C8_Witness ==
    /\ rop = "distance"
    /\ Len(lhs.ridge) = 2 /\ Len(rhs.ridge) = 2
    /\ StrictlyOrdered(lhs.ridge) /\ StrictlyOrdered(rhs.ridge)
    /\ rl_dist > lhs.before + rhs.before
    /\ rl_dist = MaxSum(lhs, rhs)


\* Value of the step function at the half-integer position t / 2.
ValueAtHalf(r, t) ==
    LET idx == {i \in 1..Len(r.ridge) : 2 * r.ridge[i].x <= t}
    IN IF idx = {} THEN r.before ELSE r.ridge[SetMax(idx)].y

HalfSamples == (0 - 2 * MaxX - 2)..(2 * MaxPivot + 2 * MaxX + 2)

IsBreakpointHalf(r, t) == \E i \in 1..Len(r.ridge) : 2 * r.ridge[i].x = t

LastHeight(r) == IF r.ridge = <<>> THEN r.before ELSE r.ridge[Len(r.ridge)].y

\* C9: reverse_ridge_line(r, p) is the horizontal mirror of r about p: its
\* `before` is r's last height, its value at every x that is not one of its
\* breakpoints is r's value at p - x, and mirroring the result again about
\* the same pivot gives back r.
C9_ReverseIsMirror ==
    /\ rop = "reverse" =>
        /\ rl_out.before = LastHeight(lhs)
        /\ \A t \in HalfSamples :
            ~IsBreakpointHalf(rl_out, t) =>
                ValueAtHalf(rl_out, t) = ValueAtHalf(lhs, 2 * pivot - t)
    /\ rop = "reverse_back" => rl_out = lhs

C9_Witness ==
    /\ rop = "reverse_back"
    /\ pivot = 1
    /\ Len(lhs.ridge) = 2
    /\ StrictlyOrdered(lhs.ridge)
    /\ lhs.before # lhs.ridge[1].y
    /\ lhs.ridge[1].y # lhs.ridge[2].y
    /\ lhs.before # lhs.ridge[2].y

NowhereBelowZero(r) ==
    r.before >= 0 /\ \A i \in 1..Len(r.ridge) : r.ridge[i].y >= 0

NoRepeatedHeight(r) ==
    \A i \in 1..(Len(r.ridge) - 1) : r.ridge[i].y # r.ridge[i + 1].y

\* C10 (as stated): merge_ridge_lines(L, L) returns a ridge line equal to L,
\* and merging L under max with RidgeLine(0, []) in either argument order
\* returns a ridge line equal to L whenever L lies nowhere below 0.
C10_MergeAddsNothing ==
    rop = "merge_max" =>
        /\ lhs = rhs => rl_out = lhs
        /\ (rhs = EmptyLine /\ NowhereBelowZero(lhs)) => rl_out = lhs
        /\ (lhs = EmptyLine /\ NowhereBelowZero(rhs)) => rl_out = rhs

\* C10 (amended): the same, for every L in which no two consecutive
\* breakpoints have the same height (merging drops a breakpoint that repeats
\* the height of the one before it).
C10_MergeAddsNothingNoRepeats ==
    rop = "merge_max" =>
        /\ (lhs = rhs /\ NoRepeatedHeight(lhs)) => rl_out = lhs
        /\ (rhs = EmptyLine /\ NowhereBelowZero(lhs) /\ NoRepeatedHeight(lhs))
              => rl_out = lhs
        /\ (lhs = EmptyLine /\ NowhereBelowZero(rhs) /\ NoRepeatedHeight(rhs))
              => rl_out = rhs

C10_Witness ==
    /\ rop = "merge_max"
    /\ lhs = rhs
    /\ Len(lhs.ridge) = 2
    /\ NoRepeatedHeight(lhs)
    /\ lhs.ridge[1].y = lhs.before
    /\ rl_out = lhs

C10_WitnessEmpty ==
    /\ rop = "merge_max"
    /\ lhs = EmptyLine
    /\ Len(rhs.ridge) = 2
    /\ NowhereBelowZero(rhs)
    /\ NoRepeatedHeight(rhs)
    /\ rl_out = rhs


(***************************************************************************)
(* Element tree and loader claims                                          *)
(***************************************************************************)
SequenceCtors == {"sequence", "stack", "no_break"}

ChoiceCtors == {"choice", "optional"}

\* The children that remain once Skips are dropped and the children of
\* nested Sequences are spliced in.
RECURSIVE RemainingChildren(_)
RemainingChildren(items) ==
    IF items = <<>> THEN <<>>
    ELSE LET h == Head(items)
         IN (IF isinstance(h, "Skip") THEN <<>>
             ELSE IF isinstance(h, "Sequence") THEN h._items
             ELSE <<h>>) \o RemainingChildren(Tail(items))

WellFormedSequence(e) ==
    /\ Len(e._items) >= 2
    /\ \A i \in 1..Len(e._items) :
        ~isinstance(e._items[i], "Skip") /\ ~isinstance(e._items[i], "Sequence")
    /\ Len(e._linebreaks) = Len(e._items) - 1

\* C1: whatever children and linebreaks the Sequence constructor accepts,
\* the result is Skip when no non-Skip child remains, the lone child when a
\* single child remains, and otherwise a Sequence of at least 2 children,
\* none of them a Skip or a Sequence, with exactly (children - 1) linebreaks.
C1_SequenceWellFormed ==
    (last.ctor \in SequenceCtors /\ last.err = "none") =>
        /\ isinstance(last.out, "Sequence") => WellFormedSequence(last.out)
        /\ RemainingChildren(last.items) = <<>> => last.out = Skip
        /\ Len(RemainingChildren(last.items)) = 1
              => last.out = RemainingChildren(last.items)[1]

\* The branches that remain once nested Choices are merged.
RECURSIVE MergedBranches(_)
MergedBranches(items) ==
    IF items = <<>> THEN <<>>
    ELSE LET h == Head(items)
         IN (IF isinstance(h, "Choice") THEN h._items ELSE <<h>>)
                \o MergedBranches(Tail(items))

SkipPositions(items) == {i \in 1..Len(items) : isinstance(items[i], "Skip")}

\* Branches left when all Skips but one count as one branch.
DistinctBranches(items) ==
    LET m == MergedBranches(items)
    IN Len(m) - Cardinality(SkipPositions(m))
           + (IF SkipPositions(m) = {} THEN 0 ELSE 1)

\* The element the caller designated as default (0-based index d).
Designated(items, d) ==
    LET c == items[d + 1]
    IN IF isinstance(c, "Choice") THEN c._items[c._default + 1] ELSE c

\* items without its Skips other than the one at position keep.
RECURSIVE KeepOneSkip(_, _, _)
KeepOneSkip(items, keep, i) ==
    IF i > Len(items) THEN <<>>
    ELSE (IF isinstance(items[i], "Skip") /\ i # keep THEN <<>> ELSE <<items[i]>>)
            \o KeepOneSkip(items, keep, i + 1)

\* 0-based index of position p of items after KeepOneSkip.
IndexAfterKeep(items, keep, p) ==
    Cardinality({i \in 1..(p - 1) : ~isinstance(items[i], "Skip") \/ i = keep})

WellFormedChoice(e) ==
    /\ Len(e._items) >= 2
    /\ \A i \in 1..Len(e._items) : ~isinstance(e._items[i], "Choice")
    /\ Cardinality(SkipPositions(e._items)) <= 1
    /\ 0 <= e._default /\ e._default < Len(e._items)

\* C2: whatever branches and default index the Choice constructor accepts,
\* the result is a non-Choice element when fewer than 2 distinct branches
\* remain, and otherwise a Choice of at least 2 branches, none of them a
\* Choice, at most one of them a Skip, whose default index is in range and
\* addresses the designated element; and a Choice built from N Skip branches
\* is identical to the one built with a single Skip among the same branches.
C2_ChoiceWellFormed ==
    (last.ctor \in ChoiceCtors /\ last.err = "none" /\ last.items # <<>>) =>
        LET d == DefaultOrZero(last.default)
            inRange == 0 <= d /\ d < Len(last.items)
        IN /\ isinstance(last.out, "Choice") => WellFormedChoice(last.out)
           /\ DistinctBranches(last.items) < 2 => ~isinstance(last.out, "Choice")
           /\ (DistinctBranches(last.items) >= 2 /\ Len(last.items) >= 2)
                 => isinstance(last.out, "Choice")
           /\ (isinstance(last.out, "Choice") /\ inRange)
                 => last.out._items[last.out._default + 1]
                        = Designated(last.items, d)
           /\ (inRange /\ SkipPositions(last.items) # {}) =>
                 \E keep \in SkipPositions(last.items) :
                    /\ isinstance(last.items[d + 1], "Skip") => keep = d + 1
                    /\ Choice_new(KeepOneSkip(last.items, keep, 1),
                                  IndexAfterKeep(last.items, keep, d + 1))
                           = Returned(last.out)

\* Three branches, two of them Skips, the default a Node after the Skips.
C2_Witness ==
    /\ last.ctor = "choice"
    /\ last.err = "none"
    /\ Len(last.items) = 3
    /\ Cardinality(SkipPositions(last.items)) = 2
    /\ DefaultOrZero(last.default) = 2
    /\ isinstance(last.items[3], "Node")
    /\ isinstance(last.out, "Choice")
    /\ last.out._default = 1

\* A nested Choice is the designated default and is merged into its parent.
C2_WitnessNested ==
    /\ last.ctor = "choice"
    /\ last.err = "none"
    /\ Len(last.items) = 2
    /\ isinstance(last.items[2], "Choice")
    /\ DefaultOrZero(last.default) = 1
    /\ last.items[2]._default = 1
    /\ isinstance(last.out, "Choice")
    /\ Len(last.out._items) = 3
    /\ last.out._default = 2

\* C5: load rejects with a LoadingError every choice description whose
\* default index is not within 0 <= default < number of branches.
C5_DefaultOutOfRangeRejected ==
    (last.ctor = "choice"
        /\ ~(0 <= DefaultOrZero(last.default)
                /\ DefaultOrZero(last.default) < Len(last.items)))
        => last.err = "LoadingError"

\* C6: load rejects with an error (a LoadingError, which is a ValueError)
\* every sequence description whose explicit linebreaks list has a length
\* other than (number of children - 1).
C6_LinebreaksLengthRejected ==
    (last.ctor = "sequence" /\ last.linebreaks.tag = "list"
        /\ Len(last.linebreaks.list) # Len(last.items) - 1)
        => last.err \in {"LoadingError", "ValueError"}


(***************************************************************************)
(* Sequence layout claims                                                  *)
(***************************************************************************)
Done == frame.pc = "done"

\* The texts of the Nodes an item of self._items stands for.
TextsOf(item) ==
    IF isinstance(item, "Node") THEN {item.text}
    ELSE {item._items[j].text : j \in 1..Len(item._items)}

\* The rows of self._item_rows that hold child j of the constructed Sequence.
RowsHolding(j) ==
    {r \in 1..Len(self._item_rows) :
        \E p \in 1..Len(self._item_rows[r]) :
            constructed._items[j].text
                \in TextsOf(self._items[self._item_rows[r][p]])}

\* Linebreak j of the constructed Sequence stands between child j and j + 1.
Between(j, kind) ==
    /\ j < Len(constructed._items)
    /\ constructed._linebreaks[j] = kind

LinebreakPositions == 1..Len(constructed._linebreaks)

\* C3: after calculate_layout, the children on both sides of a NO_BREAK
\* linebreak are in the same row, and a Sequence whose linebreaks are all
\* NO_BREAK has exactly one row.
C3_NoBreakNeverSplits ==
    Done =>
        /\ \A j \in LinebreakPositions :
              Between(j, "NO_BREAK") =>
                  \A r1 \in RowsHolding(j), r2 \in RowsHolding(j + 1) : r1 = r2
        /\ all_no_break(constructed._linebreaks) => Len(self._item_rows) = 1

\* A laid out Sequence with several rows and a NO_BREAK pair placed together.
C3_Witness ==
    /\ Done
    /\ Len(self._item_rows) >= 2
    /\ \E j \in LinebreakPositions :
          /\ Between(j, "NO_BREAK")
          /\ RowsHolding(j) # {}
          /\ RowsHolding(j) = RowsHolding(j + 1)

\* An all NO_BREAK Sequence wider than the width it was given, in one row.
C3_WitnessAllNoBreak ==
    /\ Done
    /\ all_no_break(constructed._linebreaks)
    /\ Len(self._item_rows) = 1
    /\ _calculate_layout_single_line(self._items, self.context, FALSE, 1, 1).width
         > self.context.width

\* C4: after calculate_layout, the children on both sides of a HARD
\* linebreak never share a row.
C4_HardAlwaysSplits ==
    Done =>
        \A j \in LinebreakPositions :
            Between(j, "HARD") => RowsHolding(j) \cap RowsHolding(j + 1) = {}

\* A HARD linebreak whose two children are placed, in a Sequence that would
\* fit its width as a single line.
C4_Witness ==
    /\ Done
    /\ \E j \in LinebreakPositions :
          /\ Between(j, "HARD")
          /\ RowsHolding(j) # {}
          /\ RowsHolding(j + 1) # {}
    /\ _calculate_layout_single_line(self._items, self.context, FALSE, 1, 1).width
         + arc_size("STACK") <= self.context.width

\* The texts of the Nodes of a list of items, in order.
RECURSIVE TextsInOrder(_)
TextsInOrder(items) ==
    IF items = <<>> THEN <<>>
    ELSE (IF isinstance(items[1], "Node") THEN <<items[1].text>>
          ELSE TextsInOrder(items[1]._items))
         \o TextsInOrder(Tail(items))

\* The items of the rows, one row after the other.
RECURSIVE RowsInOrder(_)
RowsInOrder(rows) ==
    IF rows = <<>> THEN <<>>
    ELSE [p \in 1..Len(rows[1]) |-> self._items[rows[1][p]]]
         \o RowsInOrder(Tail(rows))

NoEmptyRow == \A r \in 1..Len(self._item_rows) : self._item_rows[r] # <<>>

\* C19: after calculate_layout every row is non-empty, and the rows, one
\* after the other, hold exactly the children the Sequence was constructed
\* with, in their order.
C19_RowsAreTheChildren ==
    Done =>
        /\ NoEmptyRow
        /\ TextsInOrder(RowsInOrder(self._item_rows))
             = TextsInOrder(constructed._items)

\* The same, for the Sequences whose constructor left n - 1 linebreaks for
\* n children.
C19_RowsAreTheChildrenWellFormed ==
    (Done /\ Len(constructed._linebreaks) = Len(constructed._items) - 1) =>
        /\ NoEmptyRow
        /\ TextsInOrder(RowsInOrder(self._item_rows))
             = TextsInOrder(constructed._items)

\* Positions of the row whose item is followed by a SOFT linebreak.
SoftPositions(row) ==
    {p \in 1..Len(row) :
        /\ row[p] <= Len(self._linebreaks)
        /\ self._linebreaks[row[p]] = "SOFT"}

\* Sum of the display widths of the items of a row and of the gaps between
\* neighbours, when the items have the given contexts.
RECURSIVE RowRunningWidth(_, _, _)
RowRunningWidth(row, contexts, p) ==
    IF p = 0 THEN 0
    ELSE RowRunningWidth(row, contexts, p - 1)
         + ItemMetrics(self._items, contexts, row[p]).display_width
         + (IF p > 1
            THEN _calculate_gap(ItemMetrics(self._items, contexts, row[p - 1]),
                                ItemMetrics(self._items, contexts, row[p]))
            ELSE 0)

\* The last iteration found that its item overflows a row in which a SOFT
\* linebreak was passed.
SoftBreakDue ==
    /\ trace.part = "iteration"
    /\ needs_break(trace.laid, trace.k)
    /\ SoftPositions(trace.laid.row) # {}

\* The row is closed at the most recent SOFT linebreak and the items after
\* it open the new row in their order.
ClosedAtLastSoft ==
    LET p == SetMax(SoftPositions(trace.laid.row))
    IN /\ trace.soft.rows = Append(trace.laid.rows, SubSeq(trace.laid.row, 1, p))
       /\ trace.soft.row = SubSeq(trace.laid.row, p + 1, Len(trace.laid.row))

\* The item that opens the new row has start_connection = STACK.
HeadHasStack ==
    LET head == IF trace.soft.row # <<>> THEN trace.soft.row[1] ELSE trace.k
    IN trace.soft.contexts[head].start_connection = "STACK"

RunningWidthIsRowWidth ==
    trace.soft.current_width
        = RowRunningWidth(trace.soft.row, trace.soft.contexts, Len(trace.soft.row))

\* C17: when an item overflows a row in which a SOFT linebreak was passed,
\* the row is closed at the most recent SOFT linebreak, the items after it
\* open the new row in order, the first of them has start_connection =
\* STACK, and the running width is the sum of the display widths of the
\* items now in the row plus the gaps between them.
C17_SoftBreakRewind ==
    SoftBreakDue => ClosedAtLastSoft /\ HeadHasStack /\ RunningWidthIsRowWidth

\* The parts of C17 that do not depend on the running width.
C17_SoftBreakRewindRows ==
    SoftBreakDue => ClosedAtLastSoft /\ HeadHasStack

\* The Sequence was laid out by the wrap loop into two or more rows.
MultiRow == Done /\ Len(self._item_rows) >= 2

RowEnd(r, p) == p = Len(self._item_rows[r])

\* Every item that opens a row after the first has start_connection = STACK.
RowHeadsHaveStack ==
    \A r \in 2..Len(self._item_rows) :
        item_context[self._item_rows[r][1]].start_connection = "STACK"

\* Every item that ends a row before the last has end_connection = STACK,
\* opt_exit_bottom and allow_shrinking_stacks.
RowEndsHaveStack ==
    \A r \in 1..(Len(self._item_rows) - 1) :
        LET c == item_context[self._item_rows[r][Len(self._item_rows[r])]]
        IN /\ c.end_connection = "STACK"
           /\ c.opt_exit_bottom
           /\ c.allow_shrinking_stacks

\* Every item but the last of the Sequence has end connection NORMAL or STACK.
InnerEndsNormalOrStack ==
    \A j \in 1..(Len(self._items) - 1) :
        item_context[j].end_connection \in {"NORMAL", "STACK"}

\* An item that neither ends a row nor is the last of the Sequence has the
\* end side of a plain item context: nothing of the Sequence's own end.
OnlyLastHasSequenceEnd ==
    \A r \in 1..Len(self._item_rows) :
        \A p \in 1..(Len(self._item_rows[r]) - 1) :
            LET j == self._item_rows[r][p]
                c == item_context[j]
            IN j # Len(self._items) =>
                /\ c.end_connection = "NORMAL"
                /\ c.end_direction = "STRAIGHT"
                /\ c.end_top_is_clear
                /\ c.end_bottom_is_clear
                /\ ~c.opt_exit_bottom

\* C18: after a layout into several rows, the context of every item matches
\* the place the item has: rows after the first open with STACK, rows before
\* the last end with STACK, opt_exit_bottom and allow_shrinking_stacks, inner
\* items end with NORMAL or STACK, and only the last item of the Sequence has
\* the end connection, direction, clearance and opt_exit_bottom of the
\* Sequence.
C18_ContextsMatchPlaces ==
    MultiRow =>
        /\ RowHeadsHaveStack
        /\ RowEndsHaveStack
        /\ InnerEndsNormalOrStack
        /\ OnlyLastHasSequenceEnd

\* The parts of C18 about the two ends of the rows.
C18_RowEndsMatch ==
    MultiRow => RowHeadsHaveStack /\ RowEndsHaveStack /\ InnerEndsNormalOrStack

(***************************************************************************)
(* Repeated layout claims                                                  *)
(***************************************************************************)
\* The second call has been made and the first layout or the second one is
\* complete.
SecondCallMade == previous.calls = 1

SameArguments == SecondCallMade /\ previous.context = previous.self.context

\* Vertical metrics of the rows of a Sequence object whose layout is done.
RowsVertical(object) ==
    [r \in 1..Len(object._item_rows) |->
        [p \in 1..Len(object._item_rows[r]) |->
            calculate_layout_vertical(object._items[object._item_rows[r][p]],
                                      measure)]]

SequenceVertical(object) ==
    _calculate_layout_metrics_vertical(RowsVertical(object), object.context.is_outer)

TotalHeight(object) ==
    LET v == SequenceVertical(object) IN v.up + v.height + v.down

\* C11: a calculate_layout call whose settings and context equal those of
\* the previous call changes nothing: the rows, the connections and with
\* them every metric of the Sequence stay as they were, and no child is laid
\* out again (the children keep their contexts, the wrap loop is not entered).
C11_SameArgumentsNoOp ==
    SameArguments =>
        /\ self = previous.self
        /\ item_context = previous.item_context
        /\ frame = previous.frame

\* The repeated call happened on a Sequence that was wrapped into rows.
C11_Witness ==
    /\ SameArguments
    /\ Done
    /\ Len(self._item_rows) >= 2
    /\ self = previous.self

\* Both calls have laid the Sequence out, with different widths.
TwoLayouts ==
    /\ SecondCallMade
    /\ Done
    /\ previous.self.context.width # self.context.width

Narrower ==
    IF previous.self.context.width < self.context.width THEN previous.self ELSE self

Wider ==
    IF previous.self.context.width < self.context.width THEN self ELSE previous.self

\* The wider layout is not taller than the narrower one.
HeightMonotone == TotalHeight(Wider) <= TotalHeight(Narrower)

\* Every row of the wider layout holds at least as many children as the row
\* of the same number of the narrower layout.
RowsMonotone ==
    \A r \in 1..Min2(Len(Wider._item_rows), Len(Narrower._item_rows)) :
        Len(Wider._item_rows[r]) >= Len(Narrower._item_rows[r])

\* Number of children in the rows before the row r and in row r.
RECURSIVE ChildrenUpTo(_, _)
ChildrenUpTo(rows, r) ==
    IF r = 0 THEN 0 ELSE ChildrenUpTo(rows, r - 1) + Len(rows[r])

\* The first r rows of the wider layout hold at least as many children as
\* the first r rows of the narrower one.
PrefixMonotone ==
    \A r \in 1..Min2(Len(Wider._item_rows), Len(Narrower._item_rows)) :
        ChildrenUpTo(Wider._item_rows, r) >= ChildrenUpTo(Narrower._item_rows, r)

Separation ==
    IF self.context.is_outer THEN vertical_seq_separation_outer
    ELSE vertical_seq_separation

RowShift(r) == IF r > 1 /\ self._shift_first_line THEN floor_arc_radius ELSE 0

RowMetrics(r) ==
    [p \in 1..Len(self._item_rows[r]) |->
        ItemMetrics(self._items, item_context, self._item_rows[r][p])]

\* The silhouette of row r above its line, from its items' top ridge lines.
RowTopRidge(r) ==
    LET row == self._item_rows[r]
        vertical == RowsVertical(self)[r]
    IN row_top_ridge(
        [p \in 1..Len(row) |->
            top_ridge_line(self._items[row[p]], item_context[row[p]], measure)],
        RowMetrics(r), vertical, RowShift(r),
        0 - row_pos(vertical, Len(vertical)), Len(row))

\* The silhouette of row r below its line, from its items' bottom ridge lines.
RowBottomRidge(r) ==
    LET row == self._item_rows[r]
    IN row_bottom_ridge(
        [p \in 1..Len(row) |->
            bottom_ridge_line(self._items[row[p]], item_context[row[p]], measure)],
        RowMetrics(r), RowsVertical(self)[r], RowShift(r), 0, Len(row))

\* y of row r, the second entry of _item_rows_layout[r].
RowY(r) == row_y(RowsVertical(self), Separation, r)

RowDistance(r) == find_distance(RowBottomRidge(r), RowTopRidge(r + 1))

AdjacentRows == 1..(Len(self._item_rows) - 1)

\* C13: in a wrapped Sequence the ridge line distance between the bottom
\* silhouette of a row and the top silhouette of the row below it is at most
\* the difference of the y positions of the two rows.
C13_RowsDoNotOverlap ==
    MultiRow => \A r \in AdjacentRows : RowDistance(r) <= RowY(r + 1) - RowY(r)

\* Two rows with items one above the other: the silhouettes need a distance
\* of 2, and the rows are further apart than that.
C13_Witness ==
    /\ MultiRow
    /\ \E r \in AdjacentRows :
        /\ RowDistance(r) = 2
        /\ RowY(r + 1) - RowY(r) > 2

\* How far the items of row r reach below the line of the row, and above it.
\* An item stands lower than the line by the heights of the items before it.
RowDepth(r) ==
    LET v == RowsVertical(self)[r]
    IN SetMax({0} \cup {row_pos(v, p) + v[p].down : p \in 1..Len(v)})

RowRise(r) ==
    LET v == RowsVertical(self)[r]
    IN SetMax({0} \cup {v[p].up - row_pos(v, p - 1) : p \in 1..Len(v)})

\* C20 as claimed: the y-offset of row i+1 from row i is
\* max(vertical_seq_separation, distance(bottom ridge line of row i,
\* top ridge line of row i+1)).
C20_OffsetIsRidgeDistance ==
    MultiRow => \A r \in AdjacentRows :
        RowY(r + 1) - RowY(r) = Max2(Separation, RowDistance(r))

\* C20, amended: the y-offset of row i+1 from row i is the depth of row i
\* below its line, plus the separation on either side of the line that
\* leads from the end of row i to the start of row i+1, plus the rise of
\* row i+1 above its line.
C20_OffsetIsBoxDistance ==
    MultiRow => \A r \in AdjacentRows :
        RowY(r + 1) - RowY(r) = RowDepth(r) + 2 * Separation + RowRise(r + 1)

\* Three rows, each more than the ridge line distance below the one before.
C20_Witness ==
    /\ MultiRow
    /\ Len(self._item_rows) >= 3
    /\ \A r \in AdjacentRows :
        RowY(r + 1) - RowY(r) > Max2(Separation, RowDistance(r))

(***************************************************************************)
(* Bounding boxes                                                          *)
(***************************************************************************)
\* The wrap loop ran (the Sequence did not fit a single line).
Wrapped == Done /\ frame.i > 0

IsolatedStart ==
    Wrapped /\ (self.context.start_direction = "DOWN"
                    \/ ~self.context.start_bottom_is_clear)

IsolatedEnd ==
    Wrapped /\ (self.context.end_direction = "UP"
                    \/ ~self.context.end_top_is_clear)

\* The metrics of the Sequence after calculate_layout.
SequenceMetrics ==
    calculate_layout_adjust(
        _calculate_layout_metrics([r \in 1..Len(self._item_rows) |-> RowMetrics(r)],
                                  self._shift_first_line, frame.context),
        self.context, IsolatedStart, IsolatedEnd)

Box(x0, x1, y0, y1) == [x0 |-> x0, x1 |-> x1, y0 |-> y0, y1 |-> y1]

Contains(outer, inner) ==
    /\ outer.x0 <= inner.x0
    /\ inner.x1 <= outer.x1
    /\ outer.y0 <= inner.y0
    /\ inner.y1 <= outer.y1

\* The rectangle of the Sequence, rendered forward at pos = (0, 0).
SequenceBox ==
    LET v == SequenceVertical(self)
    IN Box(0, SequenceMetrics.display_width, 0 - v.up, v.height + v.down)

\* Where Element.render and Sequence._render_content put item p of row r:
\* after the arc of an isolated start, at the place of the item in its row
\* and at the y of the row.
ItemBox(r, p) ==
    LET v == RowsVertical(self)[r]
        at == item_pos(RowMetrics(r), v, RowShift(r), p)
        x == at.x + (IF IsolatedStart
                     THEN arc_size(self.context.start_connection) ELSE 0)
        y == RowY(r) + at.y
    IN Box(x, x + RowMetrics(r)[p].display_width,
           y - v[p].up, y + v[p].height + v[p].down)

\* The rectangle of a laid out Sequence contains the rectangle of each of
\* its items, whether the Sequence has one row or several.
SequenceBoxContainsItems ==
    Done => \A r \in 1..Len(self._item_rows) :
            \A p \in 1..Len(self._item_rows[r]) :
                Contains(SequenceBox, ItemBox(r, p))

\* Calls of calculate_layout on a tree of the given kind.
LayoutCallsOn(kind) ==
    {i \in 1..Len(calls) :
        calls[i].fn = "calculate_layout" /\ isinstance(calls[i].node, kind)}

\* C14: after layout the rectangle of every element contains the rectangles
\* of its descendants, for Sequence, Choice and OneOrMore parents alike: the
\* layout of a tree with such a parent returns, and leaves every element
\* with its rectangle.
C14_BoxContainsDescendants ==
    \A i \in LayoutCallsOn("Sequence") \cup LayoutCallsOn("OneOrMore") :
        calls[i].outcome.err = "none"

(***************************************************************************)
(* Text rendering claims                                                   *)
(***************************************************************************)
\* The horizontal mirror of a symbol: left and right exchanged.
MirrorSymbol(symbol) ==
    IF symbol = "nes" THEN "nsw"
    ELSE IF symbol = "nsw" THEN "nes"
    ELSE IF symbol = "arrow_e" THEN "arrow_w"
    ELSE IF symbol = "arrow_w" THEN "arrow_e"
    ELSE symbol

MirrorRow(row) == [x \in 1..Len(row) |-> MirrorSymbol(row[Len(row) + 1 - x])]

Mirror(text) == [y \in 1..Len(text) |-> MirrorRow(text[y])]

RenderCalls == {i \in 1..Len(calls) : calls[i].fn = "render_text"}

\* C15: the text grid that render_text draws with reverse = true is the
\* horizontal mirror of the grid it draws with reverse = false for the same
\* tree and settings, cell for cell, up to exchanging left and right symbols.
C15_ReverseIsMirror ==
    \A i \in RenderCalls, j \in RenderCalls :
        /\ calls[i].node = calls[j].node
        /\ calls[i].end_class = calls[j].end_class
        /\ ~calls[i].reverse
        /\ calls[j].reverse
        => /\ calls[i].outcome.err = "none"
           /\ calls[j].outcome.err = "none"
           /\ calls[j].outcome.text = Mirror(calls[i].outcome.text)

\* The cells a segment between from and to marks, whichever end it starts at.
SegmentCells(segment) ==
    {x \in 0..(FieldWidth - 1) :
        Min2(segment.from, segment.to) <= x /\ x < Max2(segment.from, segment.to)}

SegmentDrawn == text_render.segment # NoSegment

\* A horizontal segment drawn from x0 to x1 without arrows marks exactly the
\* cells that a segment from x1 to x0 marks: the cells between the two ends,
\* the smaller end included, are marked "we", and no other cell changes.
C15_SegmentMarksSameCells ==
    SegmentDrawn /\ ~text_render.segment.arrow_begin
                 /\ ~text_render.segment.arrow_end =>
        \A x \in 0..(FieldWidth - 1) :
            text_render._field[x + 1] =
                IF x \in SegmentCells(text_render.segment)
                THEN _write_cell(text_render.segment.before, x, {"w", "e"})[x + 1]
                ELSE text_render.segment.before[x + 1]

\* A segment was drawn from right to left across a vertical line.
C15_SegmentWitness ==
    /\ SegmentDrawn
    /\ text_render.segment.to < text_render.segment.from
    /\ \E x \in SegmentCells(text_render.segment) :
        /\ text_render.segment.before[x + 1] = "ns"
        /\ text_render._field[x + 1] = "nesw"

\* The line render_text is expected to return for a Skip: the two markers of
\* four cells each, side by side.
SimpleLine == <<"nes", "ew", "ew", "ew", "ew", "ew", "ew", "nsw">>

ComplexLine == <<"nes", "nesw", "ew", "ew", "ew", "ew", "nesw", "nsw">>

\* C16: render_text of a Skip with the default text settings returns one
\* line of 8 cells, the two end markers side by side: "nes", six "ew", "nsw"
\* with end_class = SIMPLE, and "nes", "nesw", four "ew", "nesw", "nsw" with
\* end_class = COMPLEX.
C16_SkipRendersEndMarkers ==
    \A i \in RenderCalls :
        isinstance(calls[i].node, "Skip") /\ ~calls[i].reverse =>
            calls[i].outcome =
                RenderReturned(<<IF calls[i].end_class = "SIMPLE"
                                 THEN SimpleLine ELSE ComplexLine>>)

(***************************************************************************)
(* Gaps between neighbours of a row                                        *)
(***************************************************************************)
GapComputed == laid_out.class = "Sequence" /\ laid_out.op = "_calculate_gap"

\* Distance between the content boxes of prev and next with gap g between
\* the elements.
BoxDistance(g) == laid_out.prev.end_padding + g + laid_out.next.start_padding

RespectsMargins(g) ==
    /\ g >= arc_margin
    /\ BoxDistance(g) >= laid_out.prev.end_margin
    /\ BoxDistance(g) >= laid_out.next.start_margin

\* C21: the gap between two neighbours of a row is max(0, arc_margin,
\* prev.end_margin - prev.end_padding - next.start_padding,
\* next.start_margin - next.start_padding - prev.end_padding); it is never
\* negative and it is the smallest value >= arc_margin that keeps the
\* content boxes at least prev.end_margin and next.start_margin apart.
C21_GapIsSmallestSeparation ==
    GapComputed =>
        /\ laid_out.gap =
              Max2(Max2(0, arc_margin),
                   Max2(laid_out.prev.end_margin - laid_out.prev.end_padding
                            - laid_out.next.start_padding,
                        laid_out.next.start_margin - laid_out.next.start_padding
                            - laid_out.prev.end_padding))
        /\ laid_out.gap >= 0
        /\ RespectsMargins(laid_out.gap)
        /\ \A g \in 0..(laid_out.gap - 1) : ~RespectsMargins(g)

\* The margin of the element on the right decides the gap.
C21_Witness ==
    /\ GapComputed
    /\ laid_out.gap > arc_margin
    /\ laid_out.gap = laid_out.next.start_margin - laid_out.next.start_padding
                        - laid_out.prev.end_padding
    /\ laid_out.gap > laid_out.prev.end_margin - laid_out.prev.end_padding
                        - laid_out.next.start_padding
    /\ laid_out.prev.end_padding > 0

(***************************************************************************)
(* Isolated sides                                                          *)
(***************************************************************************)
Isolating == laid_out.class = "Element" /\ laid_out.op = "calculate_layout"

\* Arc sizes as the documentation of the connection types gives them.
ArcOf(connection) ==
    CASE connection \in {"NORMAL", "NULL"} -> 0
      [] connection \in {"STACK", "STACK_BOUND"} ->
            (arc_radius_doubled + 1) \div 2 + arc_margin
      [] connection = "SPLIT" -> arc_radius_doubled + arc_margin

StartArc == IF laid_out.isolated_start THEN ArcOf(laid_out.context.start_connection) ELSE 0
EndArc == IF laid_out.isolated_end THEN ArcOf(laid_out.context.end_connection) ELSE 0

\* The content sees the width without the arcs, and the element grows by
\* the arcs of its isolated sides.
IsolatedWidths ==
    /\ laid_out.content_context.width =
            Max2(0, laid_out.context.width - StartArc - EndArc)
    /\ laid_out.metrics.start_padding = laid_out.content.start_padding + StartArc
    /\ laid_out.metrics.end_padding = laid_out.content.end_padding + EndArc
    /\ Element_width(laid_out.metrics) =
            Element_width(laid_out.content) + StartArc + EndArc
    /\ laid_out.metrics.display_width =
            laid_out.content.display_width + StartArc + EndArc

ChoiceLaidOut == laid_out.class = "Choice"

BranchIndexes == 1..Len(laid_out.items)

Promoted(connection) ==
    IF connection \in {"NORMAL", "STACK_BOUND"} THEN "SPLIT" ELSE connection

\* C23: with at least two branches left after the Skips were dropped, every
\* branch gets as start and as end connection Split when the incoming
\* connection is Normal or StackBound, and the incoming connection itself
\* when that is Stack, Split or Null.
C23_BranchConnections ==
    (ChoiceLaidOut /\ Len(laid_out.items) >= 2) =>
        \A j \in BranchIndexes :
            /\ laid_out.line_context[j].start_connection =
                    Promoted(laid_out.context.start_connection)
            /\ laid_out.line_context[j].end_connection =
                    Promoted(laid_out.context.end_connection)

\* Two branches are left of three, behind a StackBound and before a Stack
\* connection.
C23_Witness ==
    /\ ChoiceLaidOut
    /\ Len(laid_out.self._items) = 3
    /\ Len(laid_out.items) = 2
    /\ laid_out.context.start_connection = "STACK_BOUND"
    /\ laid_out.context.end_connection = "STACK"
    /\ laid_out.line_context[2].start_connection = "SPLIT"
    /\ laid_out.line_context[2].end_connection = "STACK"

OffersEnter == laid_out.context.opt_enter_top \/ laid_out.context.opt_enter_bottom
OffersExit == laid_out.context.opt_exit_top \/ laid_out.context.opt_exit_bottom
OffersSameSide ==
    \/ laid_out.context.opt_enter_top /\ laid_out.context.opt_exit_top
    \/ laid_out.context.opt_enter_bottom /\ laid_out.context.opt_exit_bottom

IsNoSkip(item) == ~isinstance(item, "Skip")

SkipElided == laid_out.items = SelectSeq(laid_out.self._items, IsNoSkip)

OriginalDefault == laid_out.self._items[laid_out.self._default + 1]

\* C24: a Choice with a Skip branch whose parent offers an enter and an exit
\* on the same side drops the Skip and connects nothing of its own; with
\* other offers only it drops the Skip and connects exactly the offered
\* roles; without a Skip branch or without offers it drops no branch; and
\* the default index addresses an existing branch afterwards, the original
\* default branch when that was not the Skip.
C24_SkipElision ==
    ChoiceLaidOut =>
        /\ (laid_out.self._has_skip /\ OffersSameSide) =>
                /\ SkipElided
                /\ ~laid_out.fields._connect_opt_enter
                /\ ~laid_out.fields._connect_opt_exit
        /\ (laid_out.self._has_skip /\ ~OffersSameSide /\ (OffersEnter \/ OffersExit)) =>
                /\ SkipElided
                /\ laid_out.fields._connect_opt_enter = OffersEnter
                /\ laid_out.fields._connect_opt_exit = OffersExit
        /\ (~laid_out.self._has_skip \/ ~(OffersEnter \/ OffersExit)) =>
                /\ laid_out.items = laid_out.self._items
                /\ ~laid_out.fields._connect_opt_enter
                /\ ~laid_out.fields._connect_opt_exit
        /\ laid_out.default \in 0..(Len(laid_out.items) - 1)
        /\ IsNoSkip(OriginalDefault) => laid_out.items[laid_out.default + 1] = OriginalDefault

\* The Skip above the default is dropped for an enter offered on top and an
\* exit offered at the bottom, and the default moves up with its branch.
C24_Witness ==
    /\ ChoiceLaidOut
    /\ laid_out.self._has_skip
    /\ laid_out.context.opt_enter_top /\ laid_out.context.opt_exit_bottom
    /\ ~OffersSameSide
    /\ Len(laid_out.items) = Len(laid_out.self._items) - 1
    /\ laid_out.default = laid_out.self._default - 1
    /\ laid_out.items[laid_out.default + 1] # laid_out.items[1]
    /\ laid_out.fields._connect_opt_enter /\ laid_out.fields._connect_opt_exit

\* Positions of the Skips that have a branch above and a branch below.
InnerSkips ==
    {s \in BranchIndexes : /\ isinstance(laid_out.items[s], "Skip")
                           /\ s > 1 /\ s < Len(laid_out.items)}

\* C25: the branch above a Skip is never given the added optional enter
\* while the branch below is given the added optional exit onto the same
\* line, nor the branch below the enter while the branch above has the exit.
C25_RailsMutuallySafe ==
    ChoiceLaidOut =>
        /\ laid_out.fields.rails_set =>
            /\ ~(laid_out.fields.rails.upper_enters /\ laid_out.fields.rails.lower_exits)
            /\ ~(laid_out.fields.rails.lower_enters /\ laid_out.fields.rails.upper_exits)
        /\ \A s \in InnerSkips :
            /\ ~(/\ laid_out.line_context[s - 1].opt_enter_bottom
                  /\ laid_out.line_context[s + 1].opt_exit_top)
            /\ ~(/\ laid_out.line_context[s + 1].opt_enter_top
                  /\ laid_out.line_context[s - 1].opt_exit_bottom)

\* Both neighbours of the Skip can use an enter and an exit; the upper one
\* gets the enter and the lower one does not get the exit.
C25_Witness ==
    /\ ChoiceLaidOut
    /\ InnerSkips = {2}
    /\ can_use_opt_enters(laid_out.items[1]) /\ can_use_opt_exits(laid_out.items[1])
    /\ can_use_opt_enters(laid_out.items[3]) /\ can_use_opt_exits(laid_out.items[3])
    /\ laid_out.line_context[1].opt_enter_bottom
    /\ ~laid_out.line_context[3].opt_exit_top

DirectionsOf(j) ==
    <<laid_out.line_context[j].start_direction, laid_out.line_context[j].end_direction>>

\* C26: every branch above the default branch is laid out with start and
\* end direction Up, every branch below it with Down, the default branch
\* with Straight.
C26_DirectionsUpAbove ==
    ChoiceLaidOut =>
        \A j \in BranchIndexes :
            DirectionsOf(j) =
                IF j - 1 < laid_out.default THEN <<"UP", "UP">>
                ELSE IF j - 1 > laid_out.default THEN <<"DOWN", "DOWN">>
                ELSE <<"STRAIGHT", "STRAIGHT">>

\* C26 as the code has it: the branches above the default turn Down towards
\* the default's line, the branches below it turn Up.
C26_DirectionsDownAbove ==
    ChoiceLaidOut =>
        \A j \in BranchIndexes :
            DirectionsOf(j) =
                IF j - 1 < laid_out.default THEN <<"DOWN", "DOWN">>
                ELSE IF j - 1 > laid_out.default THEN <<"UP", "UP">>
                ELSE <<"STRAIGHT", "STRAIGHT">>

\* Three branches with the default in the middle.
C26_Witness ==
    /\ ChoiceLaidOut
    /\ Len(laid_out.items) = 3
    /\ laid_out.default = 1
    /\ DirectionsOf(1) = <<"DOWN", "DOWN">>
    /\ DirectionsOf(2) = <<"STRAIGHT", "STRAIGHT">>
    /\ DirectionsOf(3) = <<"UP", "UP">>

(***************************************************************************)
(* Barrier and Group claims                                                *)
(***************************************************************************)
BarrierLaidOut == laid_out.class = "Barrier"

ForwardedFields ==
    {"width", "is_outer", "start_connection", "start_top_is_clear",
     "start_bottom_is_clear", "start_direction", "end_connection",
     "end_top_is_clear", "end_bottom_is_clear", "end_direction",
     "allow_shrinking_stacks"}

\* C27: the child of a Barrier is laid out with the four opt_* fields unset
\* whatever the parent offered and with every other field of the parent's
\* context, and the ridge lines of the Barrier are those of the child.
C27_BarrierStripsOptLines ==
    BarrierLaidOut =>
        /\ laid_out.raised = "none"
        /\ ~laid_out.item_context.opt_enter_top
        /\ ~laid_out.item_context.opt_enter_bottom
        /\ ~laid_out.item_context.opt_exit_top
        /\ ~laid_out.item_context.opt_exit_bottom
        /\ \A f \in ForwardedFields : laid_out.item_context[f] = laid_out.context[f]
        /\ laid_out.top_ridge_line_raised = "none"
        /\ laid_out.bottom_ridge_line_raised = "none"

GroupLaidOut == laid_out.class = "Group"

\* C28: the width handed to the child of a Group is the available width
\* less 2 * (group_horizontal_padding + group_thickness), and the child is
\* laid out with it.
C28_GroupWidthBudget ==
    GroupLaidOut =>
        /\ laid_out.raised = "none"
        /\ laid_out.item_context.width =
                Max2(0, laid_out.isolated_context.width
                        - 2 * (group_horizontal_padding + group_thickness))

\* ---------------------------------------------------------------------
\* Cell write claims
\* ---------------------------------------------------------------------

CellWritten == "writes" \in DOMAIN text_render /\ text_render.writes > 0

\* C29: in a cell that was blank and has been written by lines only
\* (segments and bends, no arrows), the glyph encodes exactly the union of
\* the direction sets written so far; a cell that held node text or a node
\* border still holds what the node put there.
C29_CellEncodesUnion ==
    (CellWritten /\ text_render.lines_only) =>
        /\ text_render.initial = "space" =>
            /\ text_render._field[1] \in Symbols
            /\ _SYMBOL_TO_DIRECTION(text_render._field[1]) = text_render.written
        /\ text_render.initial \in NodeCells =>
            text_render._field[1] = text_render.initial

\* C30: whatever merged direction set a cell write looks up, the
\* direction-to-glyph table has an entry for it, and the glyph of that
\* entry decodes to the strokes of the merged set; no write ends with a
\* KeyError.
C30_TableTotalAndConsistent ==
    (CellWritten /\ text_render.key # {}) =>
        /\ text_render.raised = "none"
        /\ _DIRECTION_TO_SYMBOL(text_render.key) # "KeyError"
        /\ _SYMBOL_TO_DIRECTION(_DIRECTION_TO_SYMBOL(text_render.key)) =
            strongest(text_render.key)

====
